---------------------------- MODULE Spec2Model ----------------------------
(***************************************************************************)
(* react-tsdoc: the analysis pipeline.                                     *)
(*                                                                         *)
(*   load            walkTree classifies declaration nodes into the        *)
(*                   document model docInfo (core/analyzer.ts)             *)
(*   closure         collectAllDependentTypes walks the type references of *)
(*                   the public declarations (generators/types/module.ts)  *)
(*   module / docs   generateExportModule renders the declaration module,  *)
(*                   the page renderers compute their Related Types list   *)
(*                   with getRelatedTypes (utils/type-helpers.ts)          *)
(*                                                                         *)
(* Text is modelled as a sequence of tokens: a type text `Array<A>` is     *)
(* <<"Array", "<", "A", ">">>, a comment is the sequence of its words, the *)
(* source text of a declaration is the sequence of its keywords, names and *)
(* punctuation.  A regular expression of the source becomes a scan over    *)
(* the tokens.                                                             *)
(***************************************************************************)
EXTENDS Integers, Sequences, FiniteSets, TLC

VARIABLES
    pc,             \* "load", "closure", "closed", "module", "related", "page"
    docInfo,        \* the document model: one name -> record map per kind
    docInfoPlain,   \* the document model of the same sources without any export keyword
    visited,        \* collectAllDependentTypes: names already passed to collectDependencies
    collectedTypes, \* collectAllDependentTypes: the result Set, in insertion order
    work,           \* collectAllDependentTypes: pending collectDependencies calls, next first
    expanded,       \* names whose fields a traversal expanded, in order, one entry per expansion
    moduleCode,     \* generateExportModule: the declaration entries of the returned text
    subject,        \* the record a documentation page is rendered for
    relVisited,     \* getRelatedTypes: names already expanded by collectRelatedTypes
    relatedTypes,   \* getRelatedTypes: the result array
    relWork,        \* getRelatedTypes: pending collectRelatedTypes calls, next first
    visiting,       \* the declaration node walkTree classified last, when traced
    doc,            \* the comment handed to parseTSDocComment last, and what came back
    build,          \* the copy of the classifier that runs: "core" (core/analyzer.ts) or "part_002"
    sources,        \* load: the source files not yet walked, next first
    pending,        \* walkTree: the children each open forEachChild has yet to visit, innermost first
    walked,         \* the syntax nodes walkTree was called for
    raised,         \* the declaration nodes whose classification threw
    links           \* the names the links of the last component page target

vars == <<pc, docInfo, docInfoPlain, visited, collectedTypes, work, expanded,
          moduleCode, subject, relVisited, relatedTypes, relWork, visiting, doc, build, sources, pending, walked, raised, links>>

\* the variables of the pipeline after the load, and those that trace the classifier
pipelineVars == <<visited, collectedTypes, work, expanded, moduleCode, subject,
                  relVisited, relatedTypes, relWork>>
walkVars == <<sources, pending, walked, raised>>
classifierVars == <<visiting, doc, build, walkVars, links>>

-----------------------------------------------------------------------------
(* Bounds *)

\* number of records a run registers in the document model
MaxDecls == 3

-----------------------------------------------------------------------------
(* Generic helpers *)

Range(s) == {s[i] : i \in 1..Len(s)}

EmptyMap == [k \in {} |-> k]

Has(map, key) == key \in DOMAIN map

RECURSIVE Concat(_)
Concat(ss) == IF ss = <<>> THEN <<>> ELSE Head(ss) \o Concat(Tail(ss))

\* index of the first occurrence of tok in s at or after position from, 0 when there is none
RECURSIVE IndexFrom(_, _, _)
IndexFrom(s, tok, from) ==
    IF from > Len(s) THEN 0
    ELSE IF s[from] = tok THEN from
    ELSE IndexFrom(s, tok, from + 1)

\* s without the elements that already occurred earlier in s (new Set(s), spread)
RECURSIVE Dedup(_)
Dedup(s) ==
    IF s = <<>> THEN <<>>
    ELSE LET init == Dedup(SubSeq(s, 1, Len(s) - 1))
             last == s[Len(s)]
         IN IF last \in Range(init) THEN init ELSE Append(init, last)

-----------------------------------------------------------------------------
(* Text *)

\* an absent type annotation, an undefined optional field, the empty string
NoType == <<>>
NoName == ""

\* the tokens of the universe that the pattern /\b([A-Z][a-zA-Z0-9]*)\b/ matches
CapitalizedIdentifiers ==
    {"A", "B", "C", "D", "T", "Array", "Promise", "React", "Map", "Set",
     "Date", "Error", "String", "Number", "Boolean"}

\* the names extractTypeNames never returns
BuiltinTypeNames ==
    {"React", "Promise", "Array", "Map", "Set", "Date", "Error", "String",
     "Number", "Boolean"}

\* name.startsWith('use')
StartsWithUse(name) == name \in {"useH", "useG"}

-----------------------------------------------------------------------------
(* core/parser.ts, utils/type-helpers.ts: the comment interpreter *)

NoComment == <<>>
ExportComment == <<"/**", "@export", "*/">>
PlainComment == <<"/**", "text", "*/">>

\* an inline tag that is opened and never closed
MalformedComment == <<"/**", "text", "{@link", "*/">>
ExampleComment == <<"/**", "text", "@example", "sample", "*/">>

CommentFrame == {"/**", "*/"}
ModifierTags == {"@export", "@hook"}

\* the content of a comment: what lies between its delimiters
Content(comment) == SelectSeq(comment, LAMBDA t : t \notin CommentFrame)

\* the parser reports an error for a text that is no doc comment and for an
\* inline tag that is not closed
ParserFails(comment) == comment = <<>> \/ "{@link" \in Range(comment)

ParserContext(summarySection, customBlocks, modifierTagSet) ==
    [thrown |-> FALSE, summarySection |-> summarySection,
     customBlocks |-> customBlocks, modifierTagSet |-> modifierTagSet]

ParserThrown ==
    [thrown |-> TRUE, summarySection |-> <<>>, customBlocks |-> <<>>, modifierTagSet |-> {}]

\* what the parser makes of the content: the summary runs to the first block
\* tag, a block runs from its tag to the end, modifier tags go to the tag set
Parsed(comment) ==
    LET content == Content(comment)
        plain == SelectSeq(content, LAMBDA t : t \notin ModifierTags)
        at == IndexFrom(plain, "@example", 1)
    IN ParserContext(
           IF at = 0 THEN plain ELSE SubSeq(plain, 1, at - 1),
           IF at = 0 THEN <<>>
           ELSE <<[tagName |-> "@example", content |-> SubSeq(plain, at + 1, Len(plain))]>>,
           Range(content) \cap ModifierTags)

\* tsdoc.TSDocParser.parseString belongs to the library: on a text it cannot
\* parse it either returns the context of what it recovered or throws
parseString(comment) ==
    IF comment # <<>> /\ ParserFails(comment) THEN {Parsed(comment), ParserThrown}
    ELSE {Parsed(comment)}

DocComment(summary, examples, flags) ==
    [thrown |-> FALSE, summary |-> summary, examples |-> examples, flags |-> flags]

EmptyDocComment == DocComment(<<>>, <<>>, {})

Thrown == [thrown |-> TRUE, summary |-> <<>>, examples |-> <<>>, flags |-> {}]

\* the results parseTSDocComment can give for a comment: [summary, examples,
\* flags], or the exception of the parser, which it does not catch
parseTSDocComment(comment) ==
    {IF ctx.thrown THEN Thrown
     ELSE DocComment(ctx.summarySection,
                     [i \in 1..Len(ctx.customBlocks) |-> ctx.customBlocks[i].content],
                     ctx.modifierTagSet \cap {"@export", "@hook"})
     : ctx \in parseString(comment)}

\* try { flags of parseTSDocComment } catch { return false }
hasExportAnnotation(comment) ==
    \E result \in parseTSDocComment(comment) : ~result.thrown /\ "@export" \in result.flags

-----------------------------------------------------------------------------
(* core/types.ts: the document model *)

\* the kind maps that consumers iterate (Object.values, Object.keys, for-in);
\* their key order is the insertion order
IteratedMaps == {"components", "functions", "hooks"}

NewDocInfo ==
    [interfaces  |-> EmptyMap,
     components  |-> EmptyMap,
     hooks       |-> EmptyMap,
     functions   |-> EmptyMap,
     unions      |-> EmptyMap,
     enums       |-> EmptyMap,
     typeAliases |-> EmptyMap,
     keyOrder    |-> [components |-> <<>>, functions |-> <<>>, hooks |-> <<>>]]

KindMaps ==
    {"interfaces", "components", "hooks", "functions", "unions", "enums", "typeAliases"}

\* docInfo.<map>[name] = rec
Register(d, map, name, rec) ==
    LET d1 == [d EXCEPT ![map] = (name :> rec) @@ @]
    IN IF map \in IteratedMaps /\ ~Has(d[map], name)
       THEN [d1 EXCEPT !.keyOrder[map] = Append(@, name)]
       ELSE d1

\* Object.values(docInfo.<map>)
Values(d, map) == [i \in 1..Len(d.keyOrder[map]) |-> d[map][d.keyOrder[map][i]]]

\* the number of records in the document model
Size(d) ==
    Cardinality(DOMAIN d.interfaces) + Cardinality(DOMAIN d.components)
    + Cardinality(DOMAIN d.hooks) + Cardinality(DOMAIN d.functions)
    + Cardinality(DOMAIN d.unions) + Cardinality(DOMAIN d.enums)
    + Cardinality(DOMAIN d.typeAliases)

\* the names registered in any kind map
RegisteredNames(d) ==
    DOMAIN d.interfaces \cup DOMAIN d.components \cup DOMAIN d.hooks
    \cup DOMAIN d.functions \cup DOMAIN d.unions \cup DOMAIN d.enums
    \cup DOMAIN d.typeAliases

\* a component record; an undefined optional field is NoType, <<>> or NoName
Component(name, comment, type, propType, stateType, refType, wrappers, referencedComponent) ==
    [name |-> name, comment |-> comment, type |-> type, propType |-> propType,
     stateType |-> stateType, refType |-> refType, wrappers |-> wrappers,
     referencedComponent |-> referencedComponent]

-----------------------------------------------------------------------------
(* core/analyzer.ts: the declaration classifier *)

\* the leading comment of a node
extractComment(node) == node.comment

\* `name: type` of each parameter, separated by commas
ParamTokens(params) ==
    Concat([i \in 1..Len(params) |->
        (IF i > 1 THEN <<",">> ELSE <<>>) \o <<params[i].name, ":">> \o params[i].type])

\* the text of an alias's type node
TypeNodeText(t) ==
    CASE t.kind = "FunctionType" ->
            <<"(">> \o ParamTokens(t.parameters) \o <<")", "=>">> \o t.type
      [] t.kind = "UnionType" ->
            Concat([i \in 1..Len(t.types) |->
                (IF i > 1 THEN <<"|">> ELSE <<>>) \o t.types[i]])
      [] OTHER -> t.text

\* the source text of a declaration node, from its first modifier to its end;
\* the bodies of functions, classes and enums are left out
getCode(node) ==
    CASE node.kind = "InterfaceDeclaration" ->
            node.modifiers \o <<"interface", node.name>>
            \o (IF node.heritage = <<>> THEN <<>> ELSE <<"extends">> \o node.heritage)
            \o <<"{">>
            \o Concat([i \in 1..Len(node.members) |->
                    <<node.members[i].name, ":">> \o node.members[i].type \o <<";">>])
            \o <<"}">>
      [] node.kind = "TypeAliasDeclaration" ->
            node.modifiers \o <<"type", node.name, "=">> \o TypeNodeText(node.type) \o <<";">>
      [] node.kind = "EnumDeclaration" ->
            node.modifiers \o <<"enum", node.name, "{", "}">>
      [] node.kind = "FunctionDeclaration" ->
            node.modifiers \o <<"function", node.name, "(">>
            \o ParamTokens(node.parameters) \o <<")">>
      [] OTHER -> \* a variable declaration: the declarator, without the statement's modifiers
            <<node.name, "=">>

\* the parameter list of a function-like node: a missing name is 'arg', a missing type 'any'
Parameters(params) ==
    [i \in 1..Len(params) |->
        [name |-> IF params[i].name = NoName THEN "arg" ELSE params[i].name,
         type |-> IF params[i].type = NoType THEN <<"any">> ELSE params[i].type]]

parseInterfaceDeclaration(node, d) ==
    LET named == SelectSeq(node.members, LAMBDA m : m.name # NoName)
        inf == [comment |-> extractComment(node),
                members |-> [i \in 1..Len(named) |->
                    [name |-> named[i].name,
                     type |-> IF named[i].type = NoType THEN <<"undefined">> ELSE named[i].type]],
                name    |-> node.name,
                code    |-> getCode(node)]
    IN Register(d, "interfaces", node.name, inf)

parseTypeAlias(node, d) ==
    LET type == node.type
        comment == extractComment(node)
    IN CASE type.kind = "FunctionType" ->
                Register(d, "functions", node.name,
                    [parameters |-> Parameters(type.parameters),
                     return |-> IF type.type = NoType THEN <<"void">> ELSE type.type,
                     comment |-> comment,
                     code |-> getCode(node)])
         [] type.kind = "UnionType" ->
                Register(d, "unions", node.name,
                    [items |-> type.types, comment |-> comment, code |-> getCode(node)])
         [] OTHER ->
                Register(d, "typeAliases", node.name,
                    [name |-> node.name, type |-> TypeNodeText(type),
                     comment |-> comment, code |-> getCode(node)])

parseEnumDeclaration(node, d) ==
    Register(d, "enums", node.name,
        [comment |-> extractComment(node), members |-> node.members,
         name |-> node.name, code |-> getCode(node)])

\* /\b(React\.)?Component\b/ or /\b(React\.)?PureComponent\b/ on the base expression
IsReactComponentBase(baseText) ==
    baseText \in {"React.Component", "Component", "React.PureComponent", "PureComponent"}

\* a parseClassDeclaration that reads the props argument only
parseClassDeclaration_PropsOnly(node, d) ==
    IF node.name = NoName THEN d
    ELSE IF node.heritage = <<>> THEN d
    ELSE LET first == node.heritage[1]
             args == first.typeArguments
         IN IF IsReactComponentBase(first.expression)
            THEN Register(d, "components", node.name,
                    Component(node.name, extractComment(node), "class",
                              IF Len(args) >= 1 THEN args[1] ELSE <<"any">>,
                              NoType, NoType, <<>>, NoName))
            ELSE d

parseClassDeclaration(node, d) ==
    IF node.name = NoName THEN d
    ELSE IF node.heritage = <<>> THEN d
    ELSE LET first == node.heritage[1]
             args == first.typeArguments
             propType == IF Len(args) >= 1 THEN args[1] ELSE NoType
             stateType == IF Len(args) >= 2 THEN args[2] ELSE NoType
         IN IF IsReactComponentBase(first.expression)
            THEN Register(d, "components", node.name,
                    Component(node.name, extractComment(node), "class",
                              IF propType = NoType THEN <<"any">> ELSE propType,
                              stateType, NoType, <<>>, NoName))
            ELSE d

\* node.inferred is the answer of the type-checking oracle, NoType when the
\* code does not reach the oracle (no final return statement with an expression)
\* part_002: the hook and the function signature are both registered, each
\* only when the map has no record of the name yet
parseFunctionDeclaration002(node, d) ==
    IF node.name = NoName THEN d
    ELSE LET comment == extractComment(node)
             returnType == IF node.type # NoType THEN node.type
                           ELSE IF node.inferred # NoType THEN node.inferred
                           ELSE <<"void">>
             d1 == IF StartsWithUse(node.name) /\ ~Has(d.hooks, node.name)
                   THEN Register(d, "hooks", node.name,
                            [name |-> node.name, type |-> <<"function">>,
                             parameters |-> Parameters(node.parameters), comment |-> comment])
                   ELSE d
         IN IF ~Has(d1.functions, node.name)
            THEN Register(d1, "functions", node.name,
                    [parameters |-> Parameters(node.parameters), return |-> returnType,
                     comment |-> comment, code |-> getCode(node)])
            ELSE d1

parseFunctionDeclaration(node, d) ==
    IF node.name = NoName THEN d
    ELSE LET comment == extractComment(node)
             returnType == IF node.type # NoType THEN node.type
                           ELSE IF node.inferred # NoType THEN node.inferred
                           ELSE <<"void">>
         IN IF StartsWithUse(node.name)
            THEN Register(d, "hooks", node.name,
                    [name |-> node.name, type |-> returnType,
                     parameters |-> Parameters(node.parameters), comment |-> comment])
            ELSE Register(d, "functions", node.name,
                    [parameters |-> Parameters(node.parameters), return |-> returnType,
                     comment |-> comment, code |-> getCode(node)])

\* the first `<...>` of a type text: the tokens between the first "<" and the
\* first ">" after it; <<>> when the pattern /<([^>]+)>/ does not match
FirstAngle(text) ==
    LET open == IndexFrom(text, "<", 1)
        close == IF open = 0 THEN 0 ELSE IndexFrom(text, ">", open + 1)
    IN IF open = 0 \/ close = 0 \/ close = open + 1 THEN <<>>
       ELSE SubSeq(text, open + 1, close - 1)

\* the last index of tok in s, 0 when there is none
RECURSIVE LastIndex(_, _, _)
LastIndex(s, tok, upto) ==
    IF upto = 0 THEN 0
    ELSE IF s[upto] = tok THEN upto
    ELSE LastIndex(s, tok, upto - 1)

MemoTypeNames == {"React.MemoExoticComponent", "MemoExoticComponent"}
ForwardRefTypeNames == {"React.ForwardRefExoticComponent", "ForwardRefExoticComponent"}
FunctionalTypeNames == {"React.FunctionComponent", "FunctionComponent", "React.FC", "FC"}
ClassTypeNames == {"React.Component", "Component"}

\* /React\.FunctionComponent<([^>]+)>/ or /React\.FC<([^>]+)>/: the argument of
\* the first React.FunctionComponent (else React.FC) that is directly followed by `<...>`
RECURSIVE ArgumentOf(_, _, _)
ArgumentOf(text, head, from) ==
    LET at == IndexFrom(text, head, from)
    IN IF at = 0 \/ at = Len(text) THEN <<>>
       ELSE IF text[at + 1] = "<" /\ FirstAngle(SubSeq(text, at + 1, Len(text))) # <<>>
                /\ IndexFrom(text, "<", at + 1) = at + 1
            THEN FirstAngle(SubSeq(text, at + 1, Len(text)))
            ELSE ArgumentOf(text, head, at + 1)

ReactFunctionalArgument(text) ==
    IF ArgumentOf(text, "React.FunctionComponent", 1) # <<>>
    THEN ArgumentOf(text, "React.FunctionComponent", 1)
    ELSE ArgumentOf(text, "React.FC", 1)

NoParse == [matched |-> FALSE]

\* analyzeComponentPattern.parseTypeText: the component shape a declared type names
RECURSIVE parseTypeText(_)
parseTypeText(typeText) ==
    IF Range(typeText) \cap MemoTypeNames # {}
    THEN LET innerType == FirstAngle(typeText)
             innerParsed == parseTypeText(innerType)
             propMatch == ReactFunctionalArgument(innerType)
         IN IF innerType = <<>> THEN NoParse
            ELSE IF innerParsed.matched
            THEN [innerParsed EXCEPT !.innerWrappers = Append(@, "memo")]
            ELSE [matched |-> TRUE, type |-> "functional",
                  propType |-> IF propMatch # <<>> THEN propMatch ELSE <<"any">>,
                  refType |-> NoType, stateType |-> NoType, innerWrappers |-> <<"memo">>]
    ELSE IF Range(typeText) \cap ForwardRefTypeNames # {}
    THEN \* /<React\.RefAttributes<([^>]+)>\s*&\s*([^>]+)>/
         LET at == IndexFrom(typeText, "React.RefAttributes", 1)
             refClose == IF at = 0 THEN 0 ELSE IndexFrom(typeText, ">", at + 2)
             propClose == IF refClose = 0 THEN 0 ELSE IndexFrom(typeText, ">", refClose + 2)
             ok == /\ at > 1 /\ typeText[at - 1] = "<"
                   /\ at + 1 <= Len(typeText) /\ typeText[at + 1] = "<"
                   /\ refClose > at + 2
                   /\ refClose + 1 <= Len(typeText) /\ typeText[refClose + 1] = "&"
                   /\ propClose > refClose + 2
         IN IF ok
            THEN [matched |-> TRUE, type |-> "forwardRef",
                  refType |-> SubSeq(typeText, at + 2, refClose - 1),
                  propType |-> SubSeq(typeText, refClose + 2, propClose - 1),
                  stateType |-> NoType, innerWrappers |-> <<>>]
            ELSE [matched |-> TRUE, type |-> "forwardRef", refType |-> <<"any">>,
                  propType |-> <<"any">>, stateType |-> NoType, innerWrappers |-> <<>>]
    ELSE IF Range(typeText) \cap FunctionalTypeNames # {}
    THEN [matched |-> TRUE, type |-> "functional",
          propType |-> IF FirstAngle(typeText) # <<>> THEN FirstAngle(typeText) ELSE <<"any">>,
          refType |-> NoType, stateType |-> NoType, innerWrappers |-> <<>>]
    ELSE IF Range(typeText) \cap ClassTypeNames # {}
    THEN \* /<([^,]+)(?:,\s*([^>]+))?>/
         LET open == IndexFrom(typeText, "<", 1)
             comma == IF open = 0 THEN 0 ELSE IndexFrom(typeText, ",", open + 1)
             close == IF comma = 0
                      THEN LastIndex(typeText, ">", Len(typeText))
                      ELSE IndexFrom(typeText, ">", comma + 1)
             one == open > 0 /\ comma = 0 /\ close > open + 1
             two == open > 0 /\ comma > open + 1 /\ close > comma + 1
         IN [matched |-> TRUE, type |-> "class",
             propType |-> IF one THEN SubSeq(typeText, open + 1, close - 1)
                          ELSE IF two THEN SubSeq(typeText, open + 1, comma - 1)
                          ELSE <<"any">>,
             stateType |-> IF two THEN SubSeq(typeText, comma + 1, close - 1) ELSE <<"any">>,
             refType |-> NoType, innerWrappers |-> <<>>]
    ELSE NoParse

\* An initializer is the chain of its expressions from the outermost inwards:
\* each element after the first is the first argument of the call before it.
Expr(kind, text, parameters, type, inferred, declType, heritage) ==
    [kind |-> kind, text |-> text, parameters |-> parameters, type |-> type,
     async |-> FALSE, inferred |-> inferred, declType |-> declType, heritage |-> heritage]

CallExpr(callee) == Expr("CallExpression", callee, <<>>, NoType, NoType, NoType, <<>>)
ArrowExpr(parameters, type, inferred) ==
    Expr("ArrowFunction", NoName, parameters, type, inferred, NoType, <<>>)
IdentExpr(name, declType) == Expr("Identifier", name, <<>>, NoType, NoType, declType, <<>>)
ClassExpr(heritage) == Expr("ClassExpression", NoName, <<>>, NoType, NoType, NoType, heritage)
OtherExpr == Expr("Other", NoName, <<>>, NoType, NoType, NoType, <<>>)

UnwrappableKinds ==
    {"FunctionExpression", "ArrowFunction", "CallExpression", "Identifier", "ClassExpression"}

IsFunctionLike(e) == e.kind \in {"ArrowFunction", "FunctionExpression"}

RECURSIVE UnwrapFrom(_, _, _)
UnwrapFrom(expr, i, wrappers) ==
    IF expr[i].kind = "CallExpression"
    THEN IF i < Len(expr) /\ expr[i + 1].kind \in UnwrappableKinds
         THEN UnwrapFrom(expr, i + 1, Append(wrappers, expr[i].text))
         ELSE [inner |-> expr[i], wrappers |-> Append(wrappers, expr[i].text)]
    ELSE [inner |-> expr[i], wrappers |-> wrappers]

unwrapCallWrappers(expr) == UnwrapFrom(expr, 1, <<>>)

\* /\b(React\.)?forwardRef$/ and /\b(React\.)?memo$/ on a callee text
IsForwardRefCallee(w) == w \in {"forwardRef", "React.forwardRef"}
IsMemoCallee(w) == w \in {"memo", "React.memo"}

NoComponent == [matched |-> FALSE]

Matched(comp) == [matched |-> TRUE, component |-> comp]

\* the wrapped branch without `componentType = 'forwardRef'`
analyzeComponentPattern_NeverForwardRef(init, name, comment, d, declaredType) ==
    LET unwrapped == unwrapCallWrappers(init)
        inner == unwrapped.inner
        parsedWrappers ==
            SelectSeq(unwrapped.wrappers, LAMBDA w : IsForwardRefCallee(w) \/ IsMemoCallee(w))
        parsed == IF declaredType = NoType THEN NoParse ELSE parseTypeText(declaredType)
        isWrappedForwardRef == \E i \in 1..Len(parsedWrappers) : IsForwardRefCallee(parsedWrappers[i])
        isWrappedMemo == \E i \in 1..Len(parsedWrappers) : IsMemoCallee(parsedWrappers[i])
        fromFunction == IsFunctionLike(inner) /\ Len(inner.parameters) > 0
        twoParams == fromFunction /\ isWrappedForwardRef /\ Len(inner.parameters) > 1
        wrappedProp ==
            IF fromFunction
            THEN (IF inner.parameters[1].type # NoType THEN inner.parameters[1].type ELSE <<"any">>)
            ELSE IF inner.kind = "Identifier" /\ inner.declType # NoType
            THEN (IF ReactFunctionalArgument(inner.declType) # <<>>
                  THEN ReactFunctionalArgument(inner.declType) ELSE <<"any">>)
            ELSE <<"any">>
        first == inner.heritage[1]
        args == first.typeArguments
    IN IF parsed.matched
       THEN Matched(Component(name, comment, parsed.type,
                parsed.propType, parsed.stateType, parsed.refType, parsed.innerWrappers,
                IF inner.kind = "Identifier" THEN inner.text ELSE NoName))
       ELSE IF isWrappedForwardRef \/ isWrappedMemo
       THEN Matched(Component(name, comment,
                "functional",
                wrappedProp,
                NoType,
                IF twoParams THEN inner.parameters[2].type ELSE NoType,
                parsedWrappers,
                IF ~fromFunction /\ inner.kind = "Identifier" THEN inner.text ELSE NoName))
       ELSE IF inner.kind = "Identifier" /\ Has(d.components, inner.text)
       THEN LET referencedComponent == d.components[inner.text]
            IN Matched(Component(name, comment, referencedComponent.type,
                    referencedComponent.propType, referencedComponent.stateType,
                    referencedComponent.refType, parsedWrappers, inner.text))
       ELSE IF /\ inner.kind = "ClassExpression" /\ inner.heritage # <<>>
               /\ IsReactComponentBase(first.expression)
       THEN Matched(Component(name, comment, "class",
                IF Len(args) >= 1 THEN args[1] ELSE <<"any">>,
                IF Len(args) >= 2 THEN args[2] ELSE <<"any">>,
                NoType, parsedWrappers, NoName))
       ELSE NoComponent

analyzeComponentPattern(init, name, comment, d, declaredType) ==
    LET unwrapped == unwrapCallWrappers(init)
        inner == unwrapped.inner
        parsedWrappers ==
            SelectSeq(unwrapped.wrappers, LAMBDA w : IsForwardRefCallee(w) \/ IsMemoCallee(w))
        parsed == IF declaredType = NoType THEN NoParse ELSE parseTypeText(declaredType)
        isWrappedForwardRef == \E i \in 1..Len(parsedWrappers) : IsForwardRefCallee(parsedWrappers[i])
        isWrappedMemo == \E i \in 1..Len(parsedWrappers) : IsMemoCallee(parsedWrappers[i])
        fromFunction == IsFunctionLike(inner) /\ Len(inner.parameters) > 0
        twoParams == fromFunction /\ isWrappedForwardRef /\ Len(inner.parameters) > 1
        wrappedProp ==
            IF fromFunction
            THEN (IF inner.parameters[1].type # NoType THEN inner.parameters[1].type ELSE <<"any">>)
            ELSE IF inner.kind = "Identifier" /\ inner.declType # NoType
            THEN (IF ReactFunctionalArgument(inner.declType) # <<>>
                  THEN ReactFunctionalArgument(inner.declType) ELSE <<"any">>)
            ELSE <<"any">>
        first == inner.heritage[1]
        args == first.typeArguments
    IN IF parsed.matched
       THEN Matched(Component(name, comment, parsed.type,
                parsed.propType, parsed.stateType, parsed.refType, parsed.innerWrappers,
                IF inner.kind = "Identifier" THEN inner.text ELSE NoName))
       ELSE IF isWrappedForwardRef \/ isWrappedMemo
       THEN Matched(Component(name, comment,
                IF twoParams THEN "forwardRef" ELSE "functional",
                wrappedProp,
                NoType,
                IF twoParams THEN inner.parameters[2].type ELSE NoType,
                parsedWrappers,
                IF ~fromFunction /\ inner.kind = "Identifier" THEN inner.text ELSE NoName))
       ELSE IF inner.kind = "Identifier" /\ Has(d.components, inner.text)
       THEN LET referencedComponent == d.components[inner.text]
            IN Matched(Component(name, comment, referencedComponent.type,
                    referencedComponent.propType, referencedComponent.stateType,
                    referencedComponent.refType, parsedWrappers, inner.text))
       ELSE IF /\ inner.kind = "ClassExpression" /\ inner.heritage # <<>>
               /\ IsReactComponentBase(first.expression)
       THEN Matched(Component(name, comment, "class",
                IF Len(args) >= 1 THEN args[1] ELSE <<"any">>,
                IF Len(args) >= 2 THEN args[2] ELSE <<"any">>,
                NoType, parsedWrappers, NoName))
       ELSE NoComponent

\* /\(\s*[^)]*\)\s*=>\s*(.+)$/: what follows the first `(...) =>` of a type text
RECURSIVE CallSignatureReturn(_, _)
CallSignatureReturn(text, from) ==
    LET open == IndexFrom(text, "(", from)
        close == IF open = 0 THEN 0 ELSE IndexFrom(text, ")", open + 1)
    IN IF open = 0 \/ close = 0 THEN <<>>
       ELSE IF close + 2 <= Len(text) /\ text[close + 1] = "=>"
       THEN SubSeq(text, close + 2, Len(text))
       ELSE CallSignatureReturn(text, open + 1)

\* /^\([^)]*\)\s*=>\s*(.+)$/, else /=>\s*(.+)$/
ArrowReturn(text) ==
    LET close == IndexFrom(text, ")", 2)
        arrow == IndexFrom(text, "=>", 1)
    IN IF /\ Len(text) > 0 /\ text[1] = "(" /\ close > 0
          /\ close + 2 <= Len(text) /\ text[close + 1] = "=>"
       THEN SubSeq(text, close + 2, Len(text))
       ELSE IF arrow > 0 /\ arrow < Len(text)
       THEN SubSeq(text, arrow + 1, Len(text))
       ELSE <<>>

\* the return type a function-like initializer declares or the oracle infers
FunctionLikeReturn(init, fallback) ==
    IF init.type # NoType THEN init.type
    ELSE IF init.inferred # NoType THEN init.inferred
    ELSE fallback

parseVariableDeclaration(node, d) ==
    LET name == node.name
        comment == extractComment(node)
        chain == node.initializer
        hasInit == chain # <<>>
        init == chain[1]
        declaredType == node.type
        isFunction == hasInit /\ IsFunctionLike(init)
        hookFromInit ==
            IF ~isFunction THEN <<"void">>
            ELSE IF init.async THEN <<"Promise", "<", "any", ">">>
            ELSE FunctionLikeReturn(init, <<"void">>)
        hookReturnType ==
            IF declaredType = NoType THEN hookFromInit
            ELSE IF CallSignatureReturn(declaredType, 1) # <<>>
            THEN CallSignatureReturn(declaredType, 1)
            ELSE declaredType
        componentInfo ==
            IF hasInit THEN analyzeComponentPattern(chain, name, comment, d, declaredType)
            ELSE NoComponent
        returnType ==
            IF declaredType # NoType
            THEN (IF Len(declaredType) = 1
                     /\ (Has(d.functions, declaredType[1]) \/ Has(d.typeAliases, declaredType[1]))
                  THEN declaredType
                  ELSE IF ArrowReturn(declaredType) # <<>> THEN ArrowReturn(declaredType)
                  ELSE declaredType)
            ELSE FunctionLikeReturn(init, <<"void">>)
    IN IF name = NoName THEN d
       ELSE IF StartsWithUse(name)
       THEN Register(d, "hooks", name,
                [name |-> name, type |-> hookReturnType,
                 parameters |-> IF isFunction THEN Parameters(init.parameters) ELSE <<>>,
                 comment |-> comment])
       ELSE IF componentInfo.matched
       THEN Register(d, "components", name, componentInfo.component)
       ELSE IF isFunction
       THEN Register(d, "functions", name,
                [parameters |-> Parameters(init.parameters), return |-> returnType,
                 comment |-> comment, code |-> getCode(node)])
       ELSE d

\* a walkTree that registers only the declarations that carry an export keyword
walkTree_ExportedOnly(node, d) ==
    IF "export" \notin Range(node.modifiers) THEN d
    ELSE CASE node.kind = "TypeAliasDeclaration" -> parseTypeAlias(node, d)
           [] node.kind = "InterfaceDeclaration" -> parseInterfaceDeclaration(node, d)
           [] node.kind = "EnumDeclaration" -> parseEnumDeclaration(node, d)
           [] node.kind = "VariableDeclaration" -> parseVariableDeclaration(node, d)
           [] node.kind = "ClassDeclaration" -> parseClassDeclaration(node, d)
           [] node.kind = "FunctionDeclaration" -> parseFunctionDeclaration(node, d)
           [] OTHER -> d

\* walkTree: the dispatch on the kind of a declaration node
walkTree(node, d) ==
    CASE node.kind = "TypeAliasDeclaration" -> parseTypeAlias(node, d)
      [] node.kind = "InterfaceDeclaration" -> parseInterfaceDeclaration(node, d)
      [] node.kind = "EnumDeclaration" -> parseEnumDeclaration(node, d)
      [] node.kind = "VariableDeclaration" -> parseVariableDeclaration(node, d)
      [] node.kind = "ClassDeclaration" -> parseClassDeclaration(node, d)
      [] node.kind = "FunctionDeclaration" -> parseFunctionDeclaration(node, d)
      [] OTHER -> d

-----------------------------------------------------------------------------
(* generators/types/module.ts: the dependency closure *)

\* the capitalised identifiers of a type text that are not built-in names
extractTypeNames(typeStr) ==
    SelectSeq(typeStr, LAMBDA tok : tok \in CapitalizedIdentifiers /\ tok \notin BuiltinTypeNames)

\* intf.code.match(/extends\s+([^{]+)/): the text between the first `extends` and the next `{`
ExtendsClause(code) ==
    LET at == IndexFrom(code, "extends", 1)
        brace == IF at = 0 THEN 0 ELSE IndexFrom(code, "{", at + 1)
        stop == IF brace = 0 THEN Len(code) + 1 ELSE brace
    IN IF at = 0 \/ stop <= at + 1 THEN <<>> ELSE SubSeq(code, at + 1, stop - 1)

\* the names in the type texts of a parameter list, in order
ParameterTypeNames(params) ==
    Concat([i \in 1..Len(params) |-> extractTypeNames(params[i].type)])

\* the names in the fields of a function signature: the return type, then the parameters
FunctionTypeNames(func) == extractTypeNames(func.return) \o ParameterTypeNames(func.parameters)

InterfaceTypeNames(intf) ==
    extractTypeNames(ExtendsClause(intf.code))
    \o Concat([i \in 1..Len(intf.members) |-> extractTypeNames(intf.members[i].type)])

UnionTypeNames(union) ==
    Concat([i \in 1..Len(union.items) |-> extractTypeNames(union.items[i])])

\* the kind maps collectDependencies looks a name up in
TypeMaps == {"interfaces", "unions", "enums", "typeAliases", "functions"}

IsDependentType(d, typeName) == \E map \in TypeMaps : Has(d[map], typeName)

\* the calls collectDependencies(typeName) makes after it has marked typeName visited
Dependencies(d, typeName) ==
    (IF Has(d.interfaces, typeName) THEN InterfaceTypeNames(d.interfaces[typeName]) ELSE <<>>)
    \o (IF Has(d.unions, typeName) THEN UnionTypeNames(d.unions[typeName]) ELSE <<>>)
    \o (IF Has(d.typeAliases, typeName)
        THEN extractTypeNames(d.typeAliases[typeName].type) ELSE <<>>)
    \o (IF Has(d.functions, typeName) THEN FunctionTypeNames(d.functions[typeName]) ELSE <<>>)

\* Set.add on an insertion-ordered set
SetAdd(set, x) == IF x \in Range(set) THEN set ELSE Append(set, x)

\* a collectDependencies without the visited check of its first line
collectDependencies_NoVisitedCheck(d, st) ==
    LET typeName == Head(st.work)
    IN [visited |-> st.visited \cup {typeName},
        collectedTypes |-> IF IsDependentType(d, typeName)
                           THEN SetAdd(st.collectedTypes, typeName)
                           ELSE st.collectedTypes,
        work |-> Dependencies(d, typeName) \o Tail(st.work),
        expanded |-> Append(st.expanded, typeName)]

\* a collectDependencies that collects a name and does not follow its references
collectDependencies_NoRecursion(d, st) ==
    LET typeName == Head(st.work)
    IN IF typeName \in st.visited
       THEN [st EXCEPT !.work = Tail(@)]
       ELSE [visited |-> st.visited \cup {typeName},
             collectedTypes |-> IF IsDependentType(d, typeName)
                                THEN SetAdd(st.collectedTypes, typeName)
                                ELSE st.collectedTypes,
             work |-> Tail(st.work),
             expanded |-> Append(st.expanded, typeName)]

\* a collectDependencies that adds every candidate, whether it resolves or not
collectDependencies_CollectsUnresolved(d, st) ==
    LET typeName == Head(st.work)
    IN IF typeName \in st.visited
       THEN [st EXCEPT !.work = Tail(@)]
       ELSE [visited |-> st.visited \cup {typeName},
             collectedTypes |-> SetAdd(st.collectedTypes, typeName),
             work |-> Dependencies(d, typeName) \o Tail(st.work),
             expanded |-> Append(st.expanded, typeName)]

\* a collectDependencies that abandons the calls still to make when it meets a
\* visited name
collectDependencies_VisitedEndsWalk(d, st) ==
    LET typeName == Head(st.work)
    IN IF typeName \in st.visited
       THEN [st EXCEPT !.work = <<>>]
       ELSE [visited |-> st.visited \cup {typeName},
             collectedTypes |-> IF IsDependentType(d, typeName)
                                THEN SetAdd(st.collectedTypes, typeName)
                                ELSE st.collectedTypes,
             work |-> Dependencies(d, typeName) \o Tail(st.work),
             expanded |-> Append(st.expanded, typeName)]

\* one call collectDependencies(Head(st.work)), up to its first recursive call
collectDependencies(d, st) ==
    LET typeName == Head(st.work)
    IN IF typeName \in st.visited
       THEN [st EXCEPT !.work = Tail(@)]
       ELSE [visited |-> st.visited \cup {typeName},
             collectedTypes |-> IF IsDependentType(d, typeName)
                                THEN SetAdd(st.collectedTypes, typeName)
                                ELSE st.collectedTypes,
             work |-> Dependencies(d, typeName) \o Tail(st.work),
             expanded |-> Append(st.expanded, typeName)]

\* the names in the prop, state and ref type of a component
ComponentTypeNames(comp) ==
    extractTypeNames(comp.propType)
    \o (IF comp.stateType # NoType THEN extractTypeNames(comp.stateType) ELSE <<>>)
    \o (IF comp.refType # NoType THEN extractTypeNames(comp.refType) ELSE <<>>)

\* the calls the three forEach loops of collectAllDependentTypes make for one seed
ComponentSeeds(d, comp) ==
    IF hasExportAnnotation(comp.comment)
    THEN ComponentTypeNames(comp)
         \o (IF comp.referencedComponent # NoName /\ Has(d.components, comp.referencedComponent)
             THEN ComponentTypeNames(d.components[comp.referencedComponent])
             ELSE <<>>)
    ELSE <<>>

\* a functions loop that seeds the closure from every function, flagged or not
FunctionSeeds_IgnoresFlag(func) == FunctionTypeNames(func)

FunctionSeeds(func) ==
    IF hasExportAnnotation(func.comment) THEN FunctionTypeNames(func) ELSE <<>>

HookSeeds(hook) ==
    IF hasExportAnnotation(hook.comment)
    THEN extractTypeNames(hook.type) \o ParameterTypeNames(hook.parameters)
    ELSE <<>>

\* the top-level collectDependencies calls of collectAllDependentTypes, in order
Seeds(d) ==
    LET comps == Values(d, "components")
        funcs == Values(d, "functions")
        hooks == Values(d, "hooks")
    IN Concat([i \in 1..Len(comps) |-> ComponentSeeds(d, comps[i])])
       \o Concat([i \in 1..Len(funcs) |-> FunctionSeeds(funcs[i])])
       \o Concat([i \in 1..Len(hooks) |-> HookSeeds(hooks[i])])

StartCollect(d) ==
    [visited |-> {}, collectedTypes |-> <<>>, work |-> Seeds(d), expanded |-> <<>>]

RECURSIVE RunCollect(_, _)
RunCollect(d, st) ==
    IF st.work = <<>> THEN st ELSE RunCollect(d, collectDependencies(d, st))

\* the Set collectAllDependentTypes returns, in insertion order
collectAllDependentTypes(d) == RunCollect(d, StartCollect(d)).collectedTypes

-----------------------------------------------------------------------------
(* generators/types/module.ts: the declaration module *)

OrAny(type) == IF type # NoType THEN type ELSE <<"any">>

\* the generic instantiation of a component kind over the fields of comp
BaseComponentType(comp) ==
    IF comp.type = "class"
    THEN <<"React.Component", "<">> \o comp.propType \o <<",">> \o OrAny(comp.stateType) \o <<">">>
    ELSE IF comp.type = "forwardRef"
    THEN <<"React.ForwardRefExoticComponent", "<", "React.RefAttributes", "<">>
         \o OrAny(comp.refType) \o <<">", "&">> \o comp.propType \o <<">">>
    ELSE <<"React.FunctionComponent", "<">> \o comp.propType \o <<">">>

\* comp.wrappers.some(w => /\bmemo$/.test(w))
HasMemoWrapper(comp) == \E i \in 1..Len(comp.wrappers) : IsMemoCallee(comp.wrappers[i])

generateComplexComponentType(comp, d) ==
    LET baseType ==
            IF comp.referencedComponent # NoName /\ Has(d.components, comp.referencedComponent)
            THEN BaseComponentType(d.components[comp.referencedComponent])
            ELSE BaseComponentType(comp)
    IN IF HasMemoWrapper(comp)
       THEN <<"React.MemoExoticComponent", "<">> \o baseType \o <<">">>
       ELSE baseType

\* code.replace(/^\s*export\s*/, '')
StripExport(text) == IF text # <<>> /\ text[1] = "export" THEN Tail(text) ELSE text

\* code.replace(/^\s*(declare|export)\s*/, '')
StripDeclareOrExport(text) ==
    IF text # <<>> /\ text[1] \in {"declare", "export"} THEN Tail(text) ELSE text

\* one declaration of the module text: the declared name, the kind of the
\* record it was rendered from, its comment block and the tokens of the declaration
Entry(name, kind, comment, text) ==
    [name |-> name, kind |-> kind, comment |-> comment, text |-> text]

\* the declaration of closure member typeName, <<>> when no branch of the chain applies
ClosureEntry(d, typeName) ==
    IF Has(d.interfaces, typeName)
    THEN <<Entry(typeName, "interface", d.interfaces[typeName].comment,
                 <<"export">> \o StripExport(d.interfaces[typeName].code))>>
    ELSE IF Has(d.unions, typeName)
    THEN <<Entry(typeName, "union", d.unions[typeName].comment,
                 <<"export">> \o StripExport(d.unions[typeName].code))>>
    ELSE IF Has(d.enums, typeName)
    THEN <<Entry(typeName, "enum", d.enums[typeName].comment,
                 <<"export">> \o StripDeclareOrExport(d.enums[typeName].code))>>
    ELSE IF Has(d.typeAliases, typeName)
    THEN <<Entry(typeName, "typeAlias", d.typeAliases[typeName].comment,
                 <<"export">> \o StripExport(d.typeAliases[typeName].code))>>
    ELSE IF Has(d.functions, typeName)
    THEN LET func == d.functions[typeName]
         IN <<Entry(typeName, "functionType", func.comment,
                    <<"export", "type", typeName, "=", "(">> \o ParamTokens(func.parameters)
                    \o <<")", "=>">> \o func.return \o <<";">>)>>
    ELSE <<>>

ComponentEntry(d, comp) ==
    Entry(comp.name, "component", comp.comment,
          <<"export", "const", comp.name, ":">> \o generateComplexComponentType(comp, d) \o <<";">>)

FunctionEntry(fname, f) ==
    Entry(fname, "function", f.comment,
          <<"export", "function", fname, "(">> \o ParamTokens(f.parameters)
          \o <<")", ":">> \o f.return \o <<";">>)

HookEntry(hook) ==
    Entry(hook.name, "hook", hook.comment,
          <<"export", "function", hook.name, "(">> \o ParamTokens(hook.parameters)
          \o <<")", ":">> \o hook.type \o <<";">>)

\* the names of the entries of a module text: the Set `emitted`
Emitted(entries) == {entries[i].name : i \in 1..Len(entries)}

\* the loop over the closure members
RECURSIVE EmitDependentTypes(_, _, _, _)
EmitDependentTypes(d, dependentTypes, i, entries) ==
    IF i > Len(dependentTypes) THEN entries
    ELSE IF dependentTypes[i] \in Emitted(entries)
    THEN EmitDependentTypes(d, dependentTypes, i + 1, entries)
    ELSE EmitDependentTypes(d, dependentTypes, i + 1,
                            entries \o ClosureEntry(d, dependentTypes[i]))

\* a components loop that declares every component, flagged or not
RECURSIVE EmitComponents_IgnoresFlag(_, _, _)
EmitComponents_IgnoresFlag(d, i, entries) ==
    IF i > Len(d.keyOrder.components) THEN entries
    ELSE LET comp == d.components[d.keyOrder.components[i]]
         IN IF comp.name \notin Emitted(entries)
            THEN EmitComponents_IgnoresFlag(d, i + 1, Append(entries, ComponentEntry(d, comp)))
            ELSE EmitComponents_IgnoresFlag(d, i + 1, entries)

\* the loop over Object.values(docInfo.components)
RECURSIVE EmitComponents(_, _, _)
EmitComponents(d, i, entries) ==
    IF i > Len(d.keyOrder.components) THEN entries
    ELSE LET comp == d.components[d.keyOrder.components[i]]
         IN IF comp.name \notin Emitted(entries) /\ hasExportAnnotation(comp.comment)
            THEN EmitComponents(d, i + 1, Append(entries, ComponentEntry(d, comp)))
            ELSE EmitComponents(d, i + 1, entries)

\* a functions loop without the check of the emitted set
RECURSIVE EmitFunctions_NoEmittedCheck(_, _, _)
EmitFunctions_NoEmittedCheck(d, i, entries) ==
    IF i > Len(d.keyOrder.functions) THEN entries
    ELSE LET fname == d.keyOrder.functions[i]
             f == d.functions[fname]
         IN IF hasExportAnnotation(f.comment)
            THEN EmitFunctions_NoEmittedCheck(d, i + 1, Append(entries, FunctionEntry(fname, f)))
            ELSE EmitFunctions_NoEmittedCheck(d, i + 1, entries)

\* the loop over Object.keys(docInfo.functions)
RECURSIVE EmitFunctions(_, _, _)
EmitFunctions(d, i, entries) ==
    IF i > Len(d.keyOrder.functions) THEN entries
    ELSE LET fname == d.keyOrder.functions[i]
             f == d.functions[fname]
         IN IF fname \notin Emitted(entries) /\ hasExportAnnotation(f.comment)
            THEN EmitFunctions(d, i + 1, Append(entries, FunctionEntry(fname, f)))
            ELSE EmitFunctions(d, i + 1, entries)

\* the loop over Object.values(docInfo.hooks)
RECURSIVE EmitHooks(_, _, _)
EmitHooks(d, i, entries) ==
    IF i > Len(d.keyOrder.hooks) THEN entries
    ELSE LET hook == d.hooks[d.keyOrder.hooks[i]]
         IN IF hook.name \notin Emitted(entries) /\ hasExportAnnotation(hook.comment)
            THEN EmitHooks(d, i + 1, Append(entries, HookEntry(hook)))
            ELSE EmitHooks(d, i + 1, entries)

\* the declarations of the text generateExportModule returns, given the closure
\* a generateExportModule that writes the public surface before the closure
EmitModule_SurfaceFirst(d, dependentTypes) ==
    LET surface == EmitHooks(d, 1, EmitFunctions(d, 1, EmitComponents(d, 1, <<>>)))
        types == EmitDependentTypes(d, dependentTypes, 1, <<>>)
    IN surface \o SelectSeq(types, LAMBDA e : e.name \notin Emitted(surface))

EmitModule(d, dependentTypes) ==
    EmitHooks(d, 1,
        EmitFunctions(d, 1,
            EmitComponents(d, 1,
                EmitDependentTypes(d, dependentTypes, 1, <<>>))))

generateExportModule(d) == EmitModule(d, collectAllDependentTypes(d))

-----------------------------------------------------------------------------
(* utils/type-helpers.ts, generators/docs: the Related Types of a page *)

\* a name as the text that consists of it
AsText(names) == [i \in 1..Len(names) |-> <<names[i]>>]

\* dependentTypes.has(text): a text is a member only when it is exactly a member's name
InSet(text, names) == Len(text) = 1 /\ text[1] \in names

\* one call collectRelatedTypes(Head(st.work)), up to its first recursive call
collectRelatedTypes(d, dependentTypes, st) ==
    LET typeName == Head(st.work)
    IN IF InSet(typeName, st.visited) \/ ~InSet(typeName, dependentTypes)
       THEN [st EXCEPT !.work = Tail(@)]
       ELSE [visited |-> st.visited \cup {typeName[1]},
             relatedTypes |-> Append(st.relatedTypes, typeName[1]),
             work |-> AsText(Dependencies(d, typeName[1])) \o Tail(st.work),
             expanded |-> Append(st.expanded, typeName[1])]

\* the texts of the fields getRelatedTypes reads from its item, in the order it reads them
ItemTexts(item) ==
    (IF item.propType # NoType THEN <<item.propType>> ELSE <<>>)
    \o (IF item.refType # NoType THEN <<item.refType>> ELSE <<>>)
    \o (IF item.stateType # NoType THEN <<item.stateType>> ELSE <<>>)
    \o [i \in 1..Len(item.parameters) |-> item.parameters[i].type]
    \o (IF item.return # NoType THEN <<item.return>> ELSE <<>>)
    \o (IF item.type # NoType THEN <<item.type>> ELSE <<>>)

Item(propType, refType, stateType, parameters, return, type) ==
    [propType |-> propType, refType |-> refType, stateType |-> stateType,
     parameters |-> parameters, return |-> return, type |-> type]

\* items.join(' | ')
JoinUnion(items) ==
    Concat([i \in 1..Len(items) |-> (IF i > 1 THEN <<"|">> ELSE <<>>) \o items[i]])

\* the item each page renderer hands to getRelatedTypes
PageItem(d, page) ==
    CASE page.kind = "component" ->
            LET comp == d.components[page.name]
            IN Item(comp.propType, comp.refType, comp.stateType, <<>>, NoType, <<comp.type>>)
      [] page.kind = "hook" ->
            Item(NoType, NoType, NoType, d.hooks[page.name].parameters, NoType,
                 d.hooks[page.name].type)
      [] page.kind = "function" ->
            Item(NoType, NoType, NoType, d.functions[page.name].parameters,
                 d.functions[page.name].return, NoType)
      [] page.kind = "interface" ->
            LET intf == d.interfaces[page.name]
            IN Item(<<intf.name>>, NoType, NoType, intf.members, NoType,
                    IF ExtendsClause(intf.code) # <<>> THEN ExtendsClause(intf.code)
                    ELSE <<intf.name>>)
      [] page.kind = "union" ->
            Item(NoType, NoType, NoType, <<>>, NoType, JoinUnion(d.unions[page.name].items))
      [] page.kind = "type" ->
            Item(NoType, NoType, NoType, <<>>, NoType, d.typeAliases[page.name].type)
      [] OTHER -> \* enum
            Item(NoType, NoType, NoType, <<>>, NoType, <<d.enums[page.name].name>>)

\* typeInfo.name of a type page: a union record has no name field
TypeInfoName(d, page) == IF page.kind = "union" THEN NoName ELSE page.name

IsTypePage(page) == page.kind \in {"interface", "union", "enum", "type"}

\* the list a page renders under "Related Types", from the array collectRelatedTypes filled
RelatedTypesOfPage(d, page, related) ==
    IF IsTypePage(page)
    THEN SelectSeq(Dedup(related), LAMBDA t : t # TypeInfoName(d, page))
    ELSE Dedup(related)

StartRelated(d, page) ==
    [visited |-> {}, relatedTypes |-> <<>>, work |-> ItemTexts(PageItem(d, page)),
     expanded |-> <<>>]

RECURSIVE RunRelated(_, _, _)
RunRelated(d, dependentTypes, st) ==
    IF st.work = <<>> THEN st
    ELSE RunRelated(d, dependentTypes, collectRelatedTypes(d, dependentTypes, st))

\* a page generateDocs writes: the directory it goes to, the record it documents
Page(bucket, kind, name) == [bucket |-> bucket, kind |-> kind, name |-> name]

\* the pages generateDocs writes
Pages(d, dependentTypes) ==
    {Page("components", "component", n) :
        n \in {m \in DOMAIN d.components : hasExportAnnotation(d.components[m].comment)}}
    \cup {Page("types", "interface", n) : n \in dependentTypes \cap DOMAIN d.interfaces}
    \cup {Page("types", "union", n) : n \in dependentTypes \cap DOMAIN d.unions}
    \cup {Page("types", "enum", n) : n \in dependentTypes \cap DOMAIN d.enums}
    \cup {Page("types", "type", n) : n \in dependentTypes \cap DOMAIN d.typeAliases}
    \cup {Page("types", "function", n) : n \in dependentTypes \cap DOMAIN d.functions}
    \cup {Page("hooks", "hook", n) :
        n \in {m \in DOMAIN d.hooks : hasExportAnnotation(d.hooks[m].comment)}}
    \cup {Page("functions", "function", n) :
        n \in {m \in DOMAIN d.functions \ dependentTypes :
                    hasExportAnnotation(d.functions[m].comment)}}

-----------------------------------------------------------------------------
(* The source trees: the declaration nodes a run can meet *)

Param(name, type) == [name |-> name, type |-> type]

InterfaceNode(name, modifiers, comment, heritage, members) ==
    [kind |-> "InterfaceDeclaration", name |-> name, modifiers |-> modifiers,
     comment |-> comment, heritage |-> heritage, members |-> members]

TypeAliasNode(name, modifiers, comment, type) ==
    [kind |-> "TypeAliasDeclaration", name |-> name, modifiers |-> modifiers,
     comment |-> comment, type |-> type]

FunctionType(parameters, type) ==
    [kind |-> "FunctionType", parameters |-> parameters, type |-> type]
UnionType(types) == [kind |-> "UnionType", types |-> types]
OtherType(text) == [kind |-> "TypeReference", text |-> text]

EnumNode(name, modifiers, comment) ==
    [kind |-> "EnumDeclaration", name |-> name, modifiers |-> modifiers,
     comment |-> comment, members |-> <<[name |-> "X", value |-> NoName]>>]

ClassNode(name, modifiers, comment, heritage) ==
    [kind |-> "ClassDeclaration", name |-> name, modifiers |-> modifiers,
     comment |-> comment, heritage |-> heritage]

Heritage(expression, typeArguments) ==
    <<[expression |-> expression, typeArguments |-> typeArguments]>>

FunctionNode(name, modifiers, comment, parameters, type, inferred) ==
    [kind |-> "FunctionDeclaration", name |-> name, modifiers |-> modifiers,
     comment |-> comment, parameters |-> parameters, type |-> type, inferred |-> inferred]

VariableNode(name, modifiers, comment, type, initializer) ==
    [kind |-> "VariableDeclaration", name |-> name, modifiers |-> modifiers,
     comment |-> comment, type |-> type, initializer |-> initializer]

Exported == <<"export">>

InterfaceNodes ==
    {InterfaceNode("A", <<>>, comment, <<>>, <<Param("m", <<"string">>)>>) :
        comment \in {NoComment, ExportComment}}
    \cup {InterfaceNode("A", <<>>, NoComment, <<>>, <<Param("m", <<"B">>)>>),
          InterfaceNode("B", <<>>, NoComment, <<>>, <<Param("m", <<"A", "[]">>)>>),
          InterfaceNode("B", Exported, NoComment, <<"A">>, <<Param("m", <<"B">>)>>)}

TypeAliasNodes ==
    {TypeAliasNode("A", Exported, ExportComment, OtherType(<<"Array", "<", "B", ">">>)),
     TypeAliasNode("B", <<>>, NoComment,
                   FunctionType(<<Param("x", <<"A">>)>>, <<"B">>)),
     TypeAliasNode("B", <<>>, NoComment, UnionType(<<<<"A">>, <<"string">>>>))}

EnumNodes ==
    {EnumNode("B", mods, NoComment) : mods \in {<<>>, <<"export", "declare">>}}

ClassNodes ==
    {ClassNode("C", <<>>, NoComment, Heritage("React.Component", <<<<"A">>, <<"B">>>>)),
     ClassNode("C", Exported, ExportComment, Heritage("React.Component", <<<<"A">>, <<"B">>>>)),
     ClassNode("C", <<>>, ExportComment, Heritage("Base", <<>>))}

FunctionNodes ==
    {FunctionNode("f", <<>>, NoComment, <<Param("x", <<"A">>)>>, <<"B">>, NoType),
     FunctionNode("f", Exported, ExportComment, <<Param("x", <<"A">>)>>, <<"B">>, NoType),
     FunctionNode("f", <<>>, ExportComment, <<>>, <<"C">>, NoType),
     FunctionNode("A", <<>>, ExportComment, <<>>, NoType, <<"B">>),
     FunctionNode("useH", <<>>, ExportComment, <<Param("x", <<"B">>)>>, <<"A">>, NoType)}

FunctionalA == <<"React.FC", "<", "A", ">">>
FunctionalB == <<"React.FC", "<", "B", ">">>

VariableNodes ==
    {VariableNode("C", <<>>, NoComment, FunctionalA,
                  <<ArrowExpr(<<Param("props", NoType)>>, NoType, NoType)>>),
     VariableNode("C", Exported, ExportComment, FunctionalA,
                  <<ArrowExpr(<<Param("props", NoType)>>, NoType, NoType)>>),
     VariableNode("D", Exported, ExportComment, FunctionalB, <<IdentExpr("C", FunctionalA)>>),
     VariableNode("C", <<>>, NoComment, NoType,
                  <<CallExpr("memo"), ArrowExpr(<<Param("p", <<"A">>)>>, NoType, NoType)>>),
     VariableNode("D", <<>>, ExportComment, NoType, <<IdentExpr("C", NoType)>>),
     VariableNode("D", <<>>, ExportComment, NoType,
                  <<CallExpr("React.memo"), IdentExpr("C", FunctionalA)>>),
     VariableNode("D", <<>>, ExportComment, NoType,
                  <<CallExpr("memo"), CallExpr("forwardRef"),
                    ArrowExpr(<<Param("p", <<"A">>), Param("r", <<"B">>)>>, NoType, NoType)>>),
     VariableNode("useH", <<>>, NoComment, NoType,
                  <<ArrowExpr(<<>>, <<"A">>, NoType)>>),
     VariableNode("f", <<>>, NoComment, NoType,
                  <<ArrowExpr(<<Param("x", <<"A">>)>>, NoType, <<"B">>)>>)}

\* the modifiers of a declaration without its export keywords
WithoutExport(modifiers) == SelectSeq(modifiers, LAMBDA m : m # "export")

PlainNode(node) == [node EXCEPT !.modifiers = WithoutExport(@)]

-----------------------------------------------------------------------------
(* The state machine *)

NoNode == [kind |-> "none", name |-> NoName]
NoDoc == [called |-> FALSE, comment |-> NoComment, result |-> EmptyDocComment]

NoPage == [bucket |-> "none", kind |-> "none", name |-> NoName]

Init ==
    /\ pc = "load"
    /\ docInfo = NewDocInfo
    /\ docInfoPlain = NewDocInfo
    /\ visited = {}
    /\ collectedTypes = <<>>
    /\ work = <<>>
    /\ expanded = <<>>
    /\ moduleCode = <<>>
    /\ subject = NoPage
    /\ relVisited = {}
    /\ relatedTypes = <<>>
    /\ relWork = <<>>
    /\ visiting = NoNode
    /\ doc = NoDoc
    /\ build = "core"
    /\ sources = <<>>
    /\ pending = <<>>
    /\ walked = {}
    /\ raised = {}
    /\ links = {}

\* load: walkTree reaches one declaration node and classifies it
Visit(node) ==
    /\ pc = "load"
    /\ Size(walkTree(node, docInfo)) <= MaxDecls
    /\ docInfo' = walkTree(node, docInfo)
    /\ docInfoPlain' = walkTree(PlainNode(node), docInfoPlain)
    /\ UNCHANGED <<pc, visited, collectedTypes, work, expanded, moduleCode, subject,
                   relVisited, relatedTypes, relWork>>
    /\ UNCHANGED classifierVars

ParseInterfaceDeclaration == \E node \in InterfaceNodes : Visit(node)
ParseTypeAlias == \E node \in TypeAliasNodes : Visit(node)
ParseEnumDeclaration == \E node \in EnumNodes : Visit(node)
ParseClassDeclaration == \E node \in ClassNodes : Visit(node)
ParseFunctionDeclaration == \E node \in FunctionNodes : Visit(node)
ParseVariableDeclaration == \E node \in VariableNodes : Visit(node)

\* collectAllDependentTypes is entered: the seeds of the public declarations are pending
CollectAllDependentTypes ==
    /\ pc = "load"
    /\ LET st == StartCollect(docInfo)
       IN /\ visited' = st.visited
          /\ collectedTypes' = st.collectedTypes
          /\ work' = st.work
          /\ expanded' = st.expanded
          /\ pc' = IF st.work = <<>> THEN "closed" ELSE "closure"
    /\ UNCHANGED <<docInfo, docInfoPlain, moduleCode, subject, relVisited, relatedTypes, relWork>>
    /\ UNCHANGED classifierVars

\* the next pending call of collectDependencies
CollectDependencies ==
    /\ pc = "closure"
    /\ LET st == collectDependencies(docInfo,
                    [visited |-> visited, collectedTypes |-> collectedTypes,
                     work |-> work, expanded |-> expanded])
       IN /\ visited' = st.visited
          /\ collectedTypes' = st.collectedTypes
          /\ work' = st.work
          /\ expanded' = st.expanded
          /\ pc' = IF st.work = <<>> THEN "closed" ELSE "closure"
    /\ UNCHANGED <<docInfo, docInfoPlain, moduleCode, subject, relVisited, relatedTypes, relWork>>
    /\ UNCHANGED classifierVars

\* a generateExportModule that drops from the document model what it has written
GenerateExportModule_ConsumesModel ==
    /\ pc = "closed"
    /\ moduleCode' = EmitModule(docInfo, collectedTypes)
    /\ docInfo' = [docInfo EXCEPT !.interfaces = EmptyMap, !.unions = EmptyMap,
                                    !.enums = EmptyMap, !.typeAliases = EmptyMap]
    /\ pc' = "module"
    /\ UNCHANGED <<docInfoPlain, visited, collectedTypes, work, expanded, subject,
                   relVisited, relatedTypes, relWork>>
    /\ UNCHANGED classifierVars

\* generateExportModule writes the declarations of the closure and of the public surface
GenerateExportModule ==
    /\ pc = "closed"
    /\ moduleCode' = EmitModule(docInfo, collectedTypes)
    /\ pc' = "module"
    /\ UNCHANGED <<docInfo, docInfoPlain, visited, collectedTypes, work, expanded, subject,
                   relVisited, relatedTypes, relWork>>
    /\ UNCHANGED classifierVars

\* a page renderer of generateDocs calls getRelatedTypes for its record
GetRelatedTypes ==
    /\ pc = "closed"
    /\ \E page \in Pages(docInfo, Range(collectedTypes)) :
        LET st == StartRelated(docInfo, page)
        IN /\ subject' = page
           /\ relVisited' = st.visited
           /\ relatedTypes' = st.relatedTypes
           /\ relWork' = st.work
           /\ expanded' = st.expanded
    /\ pc' = "related"
    /\ UNCHANGED <<docInfo, docInfoPlain, visited, collectedTypes, work, moduleCode>>
    /\ UNCHANGED classifierVars

\* the next pending call of collectRelatedTypes
CollectRelatedTypes ==
    /\ pc = "related"
    /\ relWork # <<>>
    /\ LET st == collectRelatedTypes(docInfo, Range(collectedTypes),
                    [visited |-> relVisited, relatedTypes |-> relatedTypes,
                     work |-> relWork, expanded |-> expanded])
       IN /\ relVisited' = st.visited
          /\ relatedTypes' = st.relatedTypes
          /\ relWork' = st.work
          /\ expanded' = st.expanded
    /\ UNCHANGED <<pc, docInfo, docInfoPlain, visited, collectedTypes, work, moduleCode, subject>>
    /\ UNCHANGED classifierVars

\* getRelatedTypes returns and the page writes its Related Types section
RenderRelatedTypes ==
    /\ pc = "related"
    /\ relWork = <<>>
    /\ relatedTypes' = RelatedTypesOfPage(docInfo, subject, relatedTypes)
    /\ pc' = "page"
    /\ UNCHANGED <<docInfo, docInfoPlain, visited, collectedTypes, work, expanded, moduleCode,
                   subject, relVisited, relWork>>
    /\ UNCHANGED classifierVars

Next ==
    \/ ParseInterfaceDeclaration
    \/ ParseTypeAlias
    \/ ParseEnumDeclaration
    \/ ParseClassDeclaration
    \/ ParseFunctionDeclaration
    \/ ParseVariableDeclaration
    \/ CollectAllDependentTypes
    \/ CollectDependencies
    \/ GenerateExportModule
    \/ GetRelatedTypes
    \/ CollectRelatedTypes
    \/ RenderRelatedTypes

Spec == Init /\ [][Next]_vars

\* collectAllDependentTypes and getRelatedTypes are synchronous: once entered,
\* their pending calls are made until none is left and the caller goes on
FairSpec ==
    /\ Spec
    /\ WF_vars(CollectDependencies)
    /\ WF_vars(CollectRelatedTypes)
    /\ WF_vars(RenderRelatedTypes)

-----------------------------------------------------------------------------
(* The classifier and the comment interpreter on their own: walkTree over   *)
(* class and variable declarations of every shape the classifier tells      *)
(* apart, and parseTSDocComment over the comments of what was registered    *)

AsyncArrowExpr(parameters, type, inferred) ==
    [ArrowExpr(parameters, type, inferred) EXCEPT !.async = TRUE]

PropsAndRef == <<Param("props", <<"P">>), Param("ref", <<"R">>)>>

ClassSources ==
    {ClassNode("K", <<>>, NoComment, Heritage("React.Component", <<<<"P">>, <<"S">>>>)),
     ClassNode("K", <<>>, PlainComment, Heritage("PureComponent", <<<<"P">>>>)),
     ClassNode("K", Exported, MalformedComment, Heritage("Component", <<<<"P">>, <<"S">>>>)),
     ClassNode("W", <<>>, ExampleComment, Heritage("Base", <<<<"P">>, <<"S">>>>))}

WrapperSources ==
    {VariableNode("W", <<>>, ExportComment, NoType,
                  <<CallExpr("memo"), CallExpr("forwardRef"),
                    ArrowExpr(PropsAndRef, NoType, NoType)>>),
     VariableNode("W", <<>>, NoComment, NoType,
                  <<CallExpr("React.forwardRef"), CallExpr("React.memo"),
                    ArrowExpr(PropsAndRef, NoType, NoType)>>),
     VariableNode("W", <<>>, ExampleComment, NoType,
                  <<CallExpr("observer"), CallExpr("forwardRef"),
                    ArrowExpr(PropsAndRef, NoType, NoType)>>),
     VariableNode("W", <<>>, NoComment, <<"React.FC", "<", "S", ">">>,
                  <<CallExpr("memo"), CallExpr("forwardRef"),
                    ArrowExpr(PropsAndRef, NoType, NoType)>>),
     VariableNode("W", <<>>, NoComment, NoType,
                  <<CallExpr("memo"), CallExpr("forwardRef"),
                    ArrowExpr(<<Param("props", <<"P">>)>>, NoType, NoType)>>),
     VariableNode("useG", <<>>, NoComment, NoType,
                  <<CallExpr("memo"), CallExpr("forwardRef"),
                    ArrowExpr(PropsAndRef, NoType, NoType)>>),
     VariableNode("W", <<>>, PlainComment, NoType,
                  <<CallExpr("memo"), CallExpr("create"), OtherExpr>>),
     VariableNode("W", <<>>, PlainComment, NoType, <<CallExpr("memo")>>)}

CallSignatureS == <<"(", ")", "=>", "S">>

HookSources ==
    {VariableNode("useH", <<>>, ExportComment, NoType, <<ArrowExpr(<<>>, <<"P">>, NoType)>>),
     VariableNode("useH", <<>>, NoComment, CallSignatureS,
                  <<ArrowExpr(<<>>, <<"P">>, NoType)>>),
     VariableNode("useH", <<>>, NoComment, CallSignatureS,
                  <<ArrowExpr(<<>>, NoType, <<"R">>)>>),
     VariableNode("useH", <<>>, NoComment, NoType, <<ArrowExpr(<<>>, NoType, <<"R">>)>>),
     VariableNode("useH", <<>>, NoComment, NoType,
                  <<AsyncArrowExpr(<<>>, <<"Promise", "<", "P", ">">>, NoType)>>),
     VariableNode("useH", <<>>, PlainComment, NoType,
                  <<ArrowExpr(<<Param("x", <<"P">>)>>, NoType, NoType)>>),
     VariableNode("useG", <<>>, NoComment, <<"React.FC", "<", "S", ">">>,
                  <<ArrowExpr(<<Param("props", <<"P">>)>>, NoType, NoType)>>)}

FunctionSources ==
    {FunctionNode("useH", <<>>, ExportComment, <<>>, <<"P">>, NoType),
     FunctionNode("useH", <<>>, NoComment, <<Param("x", <<"P">>)>>, <<"S">>, NoType),
     FunctionNode("f", <<>>, NoComment, <<>>, <<"P">>, NoType),
     FunctionNode("f", Exported, PlainComment, <<Param("x", <<"P">>)>>, NoType, <<"S">>)}

\* the source tree is classified by one copy of the classifier throughout
ClassifierInit ==
    /\ pc = "load"
    /\ docInfo = NewDocInfo
    /\ docInfoPlain = NewDocInfo
    /\ visited = {}
    /\ collectedTypes = <<>>
    /\ work = <<>>
    /\ expanded = <<>>
    /\ moduleCode = <<>>
    /\ subject = NoPage
    /\ relVisited = {}
    /\ relatedTypes = <<>>
    /\ relWork = <<>>
    /\ visiting = NoNode
    /\ doc = NoDoc
    /\ build \in {"core", "part_002"}
    /\ sources = <<>>
    /\ pending = <<>>
    /\ walked = {}
    /\ raised = {}
    /\ links = {}

\* walkTree of core/analyzer.ts reaches one declaration node and classifies it
Classify(node) ==
    /\ pc = "load"
    /\ build = "core"
    /\ Size(walkTree(node, docInfo)) <= MaxDecls
    /\ docInfo' = walkTree(node, docInfo)
    /\ docInfoPlain' = walkTree(PlainNode(node), docInfoPlain)
    /\ visiting' = node
    /\ UNCHANGED <<pc, doc, build>>
    /\ UNCHANGED pipelineVars
    /\ UNCHANGED <<walkVars, links>>

\* walkTree of part_002 reaches a function declaration
ClassifyFunctionDeclaration002 ==
    /\ pc = "load"
    /\ build = "part_002"
    /\ \E node \in FunctionSources :
        /\ Size(parseFunctionDeclaration002(node, docInfo)) <= MaxDecls
        /\ docInfo' = parseFunctionDeclaration002(node, docInfo)
        /\ docInfoPlain' = parseFunctionDeclaration002(PlainNode(node), docInfoPlain)
        /\ visiting' = node
    /\ UNCHANGED <<pc, doc, build>>
    /\ UNCHANGED pipelineVars
    /\ UNCHANGED <<walkVars, links>>

ClassifyClassDeclaration == \E node \in ClassSources : Classify(node)
ClassifyWrappedVariable == \E node \in WrapperSources : Classify(node)
ClassifyHookVariable == \E node \in HookSources : Classify(node)
ClassifyFunctionDeclaration == \E node \in FunctionSources : Classify(node)

\* a renderer reads the summary and the examples of the comment of a record
ParseTSDocComment ==
    /\ pc = "load"
    /\ \E map \in {"components", "hooks", "functions"} : \E name \in DOMAIN docInfo[map] :
        \E result \in parseTSDocComment(docInfo[map][name].comment) :
            doc' = [called |-> TRUE, comment |-> docInfo[map][name].comment, result |-> result]
    /\ UNCHANGED <<pc, docInfo, docInfoPlain, visiting, build>>
    /\ UNCHANGED pipelineVars
    /\ UNCHANGED <<walkVars, links>>

ClassifierNext ==
    \/ ClassifyClassDeclaration
    \/ ClassifyWrappedVariable
    \/ ClassifyHookVariable
    \/ ClassifyFunctionDeclaration
    \/ ClassifyFunctionDeclaration002
    \/ ParseTSDocComment

ClassifierSpec == ClassifierInit /\ [][ClassifierNext]_vars

-----------------------------------------------------------------------------
(* The traversal: load walks the source files one after the other, walkTree *)
(* classifies a node and then walks its children inside a try/catch; a      *)
(* classifier may throw on any declaration node                             *)

SyntaxNode(kind) == [kind |-> kind, name |-> NoName]

TreeNode(node, children) == [node |-> node, children |-> children]

\* two source files: interface A, `const C = ..., useH = ...`, function f with
\* a nested interface B in its body; a second interface A, class K
Tree ==
    [s1 |-> TreeNode(SyntaxNode("SourceFile"), <<"i1", "vs", "f1">>),
     i1 |-> TreeNode(InterfaceNode("A", <<>>, ExportComment, <<>>,
                                   <<Param("m", <<"string">>)>>), <<>>),
     vs |-> TreeNode(SyntaxNode("VariableStatement"), <<"vl">>),
     vl |-> TreeNode(SyntaxNode("VariableDeclarationList"), <<"v1", "v2">>),
     v1 |-> TreeNode(VariableNode("C", <<>>, ExportComment, FunctionalA,
                        <<ArrowExpr(<<Param("props", NoType)>>, NoType, NoType)>>), <<>>),
     v2 |-> TreeNode(VariableNode("useH", <<>>, NoComment, NoType,
                        <<ArrowExpr(<<>>, <<"A">>, NoType)>>), <<>>),
     f1 |-> TreeNode(FunctionNode("f", <<>>, ExportComment, <<Param("x", <<"A">>)>>,
                                  <<"B">>, NoType), <<"i2">>),
     i2 |-> TreeNode(InterfaceNode("B", <<>>, NoComment, <<>>,
                                   <<Param("m", <<"A", "[]">>)>>), <<>>),
     s2 |-> TreeNode(SyntaxNode("SourceFile"), <<"i3", "c1">>),
     i3 |-> TreeNode(InterfaceNode("A", Exported, NoComment, <<>>,
                                   <<Param("m", <<"B">>)>>), <<>>),
     c1 |-> TreeNode(ClassNode("K", <<>>, NoComment,
                               Heritage("React.Component", <<<<"A">>, <<"B">>>>)), <<>>)]

SourceFiles == {"s1", "s2"}

DeclarationKinds ==
    {"TypeAliasDeclaration", "InterfaceDeclaration", "EnumDeclaration",
     "VariableDeclaration", "ClassDeclaration", "FunctionDeclaration"}

\* getSources(program): the source files of the program, in either order
WalkInit ==
    /\ pc = "load"
    /\ docInfo = NewDocInfo
    /\ docInfoPlain = NewDocInfo
    /\ visited = {}
    /\ collectedTypes = <<>>
    /\ work = <<>>
    /\ expanded = <<>>
    /\ moduleCode = <<>>
    /\ subject = NoPage
    /\ relVisited = {}
    /\ relatedTypes = <<>>
    /\ relWork = <<>>
    /\ visiting = NoNode
    /\ doc = NoDoc
    /\ build = "core"
    /\ sources \in {<<"s1", "s2">>, <<"s2", "s1">>}
    /\ pending = <<>>
    /\ walked = {}
    /\ raised = {}
    /\ links = {}

\* load: walkTree(sourceNode, docInfo, checker) for the next source file
LoadSource ==
    /\ pc = "load"
    /\ pending = <<>>
    /\ sources # <<>>
    /\ walked' = walked \cup {Head(sources)}
    /\ pending' = <<Tree[Head(sources)].children>>
    /\ sources' = Tail(sources)
    /\ UNCHANGED <<pc, docInfo, docInfoPlain, visiting, doc, build, raised, links>>
    /\ UNCHANGED pipelineVars

\* forEachChild calls walkTree for the next child: the classifier of its kind
\* registers it and its children are walked next
WalkChild ==
    /\ pc = "load"
    /\ pending # <<>>
    /\ Head(pending) # <<>>
    /\ LET child == Head(Head(pending))
       IN /\ walked' = walked \cup {child}
          /\ docInfo' = walkTree(Tree[child].node, docInfo)
          /\ docInfoPlain' = IF Tree[child].node.kind \in DeclarationKinds
                             THEN walkTree(PlainNode(Tree[child].node), docInfoPlain)
                             ELSE docInfoPlain
          /\ visiting' = Tree[child].node
          /\ pending' = <<Tree[child].children, Tail(Head(pending))>> \o Tail(pending)
    /\ UNCHANGED <<pc, doc, build, sources, raised, links>>
    /\ UNCHANGED pipelineVars

\* a classifier that stores its record and throws afterwards
ClassifierThrows_StoresFirst ==
    /\ pc = "load"
    /\ pending # <<>>
    /\ Head(pending) # <<>>
    /\ LET child == Head(Head(pending))
       IN /\ Tree[child].node.kind \in DeclarationKinds
          /\ walked' = walked \cup {child}
          /\ raised' = raised \cup {child}
          /\ docInfo' = walkTree(Tree[child].node, docInfo)
          /\ visiting' = Tree[child].node
          /\ pending' = Tail(pending)
    /\ UNCHANGED <<pc, docInfoPlain, doc, build, sources, links>>
    /\ UNCHANGED pipelineVars

\* forEachChild calls walkTree for the next child and its classifier throws
\* before it stores anything: the exception leaves the forEachChild of the
\* parent and is caught and logged by the try/catch around it
ClassifierThrows ==
    /\ pc = "load"
    /\ pending # <<>>
    /\ Head(pending) # <<>>
    /\ LET child == Head(Head(pending))
       IN /\ Tree[child].node.kind \in DeclarationKinds
          /\ walked' = walked \cup {child}
          /\ raised' = raised \cup {child}
          /\ visiting' = Tree[child].node
          /\ pending' = Tail(pending)
    /\ UNCHANGED <<pc, docInfo, docInfoPlain, doc, build, sources, links>>
    /\ UNCHANGED pipelineVars

\* forEachChild has visited every child: walkTree returns to its caller
ReturnFromChildren ==
    /\ pc = "load"
    /\ pending # <<>>
    /\ Head(pending) = <<>>
    /\ pending' = Tail(pending)
    /\ UNCHANGED <<pc, docInfo, docInfoPlain, visiting, doc, build, sources, walked, raised, links>>
    /\ UNCHANGED pipelineVars

WalkNext ==
    \/ LoadSource
    \/ WalkChild
    \/ ClassifierThrows
    \/ ReturnFromChildren

WalkSpec == WalkInit /\ [][WalkNext]_vars

-----------------------------------------------------------------------------
(* Properties of the declaration module *)

\* the records of the document model: <<kind map, name>>
Records(d) == UNION {{<<map, n>> : n \in DOMAIN d[map]} : map \in KindMaps}

\* the positions of the entries of a module text that declare name
EntriesOf(entries, name) == {i \in 1..Len(entries) : entries[i].name = name}

\* the number of times tok occurs in text
Occurrences(text, tok) == Cardinality({i \in 1..Len(text) : text[i] = tok})

\* the names the text of an entry mentions
NamesIn(entry) == Range(extractTypeNames(entry.text))

\* C1: every record whose comment carries @export, in whatever kind map, has
\* exactly one declaration entry in the module text, and that entry holds the
\* export keyword once.
C1_ExportedDeclaredOnce ==
    pc = "module" =>
        \A r \in Records(docInfo) :
            hasExportAnnotation(docInfo[r[1]][r[2]].comment) =>
                /\ Cardinality(EntriesOf(moduleCode, r[2])) = 1
                /\ \A i \in EntriesOf(moduleCode, r[2]) :
                        Occurrences(moduleCode[i].text, "export") = 1

\* C2: the module text is self-contained: every name an entry mentions that
\* the document model declares has an entry of its own.
C2_SelfContained ==
    pc = "module" =>
        \A i \in 1..Len(moduleCode) :
            NamesIn(moduleCode[i]) \cap RegisteredNames(docInfo) \subseteq Emitted(moduleCode)

-----------------------------------------------------------------------------
(* Properties of components that carry a back-reference *)

\* comp carries a back-reference to a registered component
IsAlias(d, comp) ==
    comp.referencedComponent # NoName /\ Has(d.components, comp.referencedComponent)

\* the canonical component the record names, the record itself when it names none
Canonical(d, comp) == IF IsAlias(d, comp) THEN d.components[comp.referencedComponent] ELSE comp

\* the document model in which every component has the prop, state and ref
\* type of its canonical component
Resolved(d) ==
    [d EXCEPT !.components =
        [n \in DOMAIN d.components |->
            [d.components[n] EXCEPT !.propType = Canonical(d, d.components[n]).propType,
                                    !.stateType = Canonical(d, d.components[n]).stateType,
                                    !.refType = Canonical(d, d.components[n]).refType]]]

\* the Related Types list of a page of document model d, given the closure
RelatedTypesOf(d, dependentTypes, page) ==
    RelatedTypesOfPage(d, page, RunRelated(d, dependentTypes, StartRelated(d, page)).relatedTypes)

\* C3: the consumers of a component that carries a back-reference read the
\* prop, state and ref type of its canonical component only: the closure and
\* the Related Types list of its page are the ones computed from the canonical
\* component's fields.
C3_ConsumersFollowBackReference ==
    /\ pc = "closed" =>
            Range(collectedTypes) = Range(collectAllDependentTypes(Resolved(docInfo)))
    /\ (pc = "page" /\ subject.kind = "component") =>
            relatedTypes = RelatedTypesOf(Resolved(docInfo), Range(collectedTypes), subject)

\* the type a component entry of the module text declares
SignatureOf(entry) == SubSeq(entry.text, 5, Len(entry.text) - 1)

\* C4: the signature rendered for a component that carries a back-reference
\* is the signature rendered for its canonical component.
C4_AliasSignatureIsCanonical ==
    pc = "module" =>
        \A i \in 1..Len(moduleCode) :
            (moduleCode[i].kind = "component"
             /\ IsAlias(docInfo, docInfo.components[moduleCode[i].name])) =>
                SignatureOf(moduleCode[i]) =
                    generateComplexComponentType(
                        Canonical(docInfo, docInfo.components[moduleCode[i].name]), docInfo)

-----------------------------------------------------------------------------
(* Properties of the Related Types of a page *)

\* C5: every name a page lists under Related Types is a member of the closure
\* handed to the renderer and is not the name of the declaration the page documents.
C5_RelatedTypesInClosureNotSubject ==
    pc = "page" =>
        \A i \in 1..Len(relatedTypes) :
            /\ relatedTypes[i] \in Range(collectedTypes)
            /\ relatedTypes[i] # subject.name

-----------------------------------------------------------------------------
(* Properties of the choice of declarations *)

\* the kind maps that register name
KindMapsOf(d, name) == {map \in KindMaps : Has(d[map], name)}

\* the kind of type declaration the precedence interface, union, enum, type
\* alias, function type gives a name
TypeKindOf(d, name) ==
    IF Has(d.interfaces, name) THEN "interface"
    ELSE IF Has(d.unions, name) THEN "union"
    ELSE IF Has(d.enums, name) THEN "enum"
    ELSE IF Has(d.typeAliases, name) THEN "typeAlias"
    ELSE IF Has(d.functions, name) THEN "functionType"
    ELSE "none"

\* the kind of the declaration rendered from a record of the public surface
SurfaceKind(map) ==
    CASE map = "components" -> "component"
      [] map = "functions" -> "function"
      [] OTHER -> "hook"

\* C6 as stated: a name registered in more than one kind map is declared once
\* in the module text, by the declaration of its type kind whenever it is
\* registered as a type.
C6_OneDeclarationTypesFirst ==
    pc = "module" =>
        \A i \in 1..Len(moduleCode) :
            Cardinality(KindMapsOf(docInfo, moduleCode[i].name)) > 1 =>
                /\ EntriesOf(moduleCode, moduleCode[i].name) = {i}
                /\ moduleCode[i].kind = TypeKindOf(docInfo, moduleCode[i].name)

\* C6: no name is declared twice in the module text; the declaration of a
\* member of the closure is the one of its type kind by the precedence
\* interface, union, enum, type alias, function type, and a name outside the
\* closure is declared from its export-flagged component, function or hook record.
C6_NoNameDeclaredTwice ==
    pc = "module" =>
        \A i \in 1..Len(moduleCode) :
            /\ EntriesOf(moduleCode, moduleCode[i].name) = {i}
            /\ moduleCode[i].name \in Range(collectedTypes) =>
                    moduleCode[i].kind = TypeKindOf(docInfo, moduleCode[i].name)
            /\ moduleCode[i].name \notin Range(collectedTypes) =>
                    \E map \in {"components", "functions", "hooks"} :
                        /\ Has(docInfo[map], moduleCode[i].name)
                        /\ hasExportAnnotation(docInfo[map][moduleCode[i].name].comment)
                        /\ moduleCode[i].kind = SurfaceKind(map)

\* a module text was written for a name that is an interface of the closure
\* and an export-flagged function at once
C6_Witness ==
    /\ pc = "module"
    /\ \E i \in 1..Len(moduleCode) :
            /\ moduleCode[i].kind = "interface"
            /\ Has(docInfo.functions, moduleCode[i].name)
            /\ hasExportAnnotation(docInfo.functions[moduleCode[i].name].comment)

-----------------------------------------------------------------------------
(* Properties of the dependency closure *)

\* the names the type-bearing fields of a record mention
References(d, map, name) ==
    CASE map = "components" ->
            Range(ComponentTypeNames(d.components[name]))
            \cup Range(ComponentTypeNames(Canonical(d, d.components[name])))
      [] map = "functions" -> Range(FunctionTypeNames(d.functions[name]))
      [] map = "hooks" ->
            Range(extractTypeNames(d.hooks[name].type))
            \cup Range(ParameterTypeNames(d.hooks[name].parameters))
      [] map = "interfaces" -> Range(InterfaceTypeNames(d.interfaces[name]))
      [] map = "unions" -> Range(UnionTypeNames(d.unions[name]))
      [] map = "typeAliases" -> Range(extractTypeNames(d.typeAliases[name].type))
      [] OTHER -> {}

\* the export-flagged records of the public surface: components, functions, hooks
PublicRecords(d) ==
    {r \in Records(d) : /\ r[1] \in {"components", "functions", "hooks"}
                        /\ hasExportAnnotation(d[r[1]][r[2]].comment)}

\* the names reachable from a set of names along the references of the type records
RECURSIVE ReachableFrom(_, _)
ReachableFrom(d, names) ==
    LET more == UNION {References(d, r[1], r[2]) :
                        r \in {q \in Records(d) : q[1] \in TypeMaps /\ q[2] \in names}}
    IN IF more \subseteq names THEN names ELSE ReachableFrom(d, names \cup more)

\* the names reachable from the type-bearing fields of the public records
Reachable(d) ==
    ReachableFrom(d, UNION {References(d, r[1], r[2]) : r \in PublicRecords(d)})

\* the names of the type declarations of a module text
TypeEntries(entries) ==
    {entries[i].name : i \in {j \in 1..Len(entries) :
        entries[j].kind \in {"interface", "union", "enum", "typeAlias", "functionType"}}}

Reflag(d, names) ==
    [map \in DOMAIN d |->
        IF map = "keyOrder" THEN d.keyOrder
        ELSE [name \in DOMAIN d[map] |->
                [d[map][name] EXCEPT
                    !.comment = IF map \in TypeMaps /\ name \in names
                                THEN ExportComment ELSE NoComment]]]

\* the closure computed again with the members of the closure as the public declarations
Reclosure ==
    Range(collectAllDependentTypes(Reflag(docInfo, Range(collectedTypes))))

-----------------------------------------------------------------------------
(* Termination of the two walks *)

NoDuplicates(seq) == \A i, j \in 1..Len(seq) : seq[i] = seq[j] => i = j

\* a call either marks a new name visited or returns at once, leaving one
\* call fewer to make
Progresses(before, after, calls, calls2) ==
    \/ before \subseteq after /\ before # after
    \/ before = after /\ Len(calls2) < Len(calls)

\* C9: the closure and the Related Types walk terminate, on models with cyclic
\* type references too: the visited sets only grow, no name is expanded twice,
\* every call adds a name to the visited set or leaves fewer calls pending, and
\* a walk that was entered is left.
C9_WalksTerminate ==
    /\ [][/\ visited \subseteq visited'
          /\ relVisited \subseteq relVisited'
          /\ NoDuplicates(expanded')
          /\ pc = "closure" => Progresses(visited, visited', work, work')
          /\ (pc = "related" /\ pc' = "related") =>
                Progresses(relVisited, relVisited', relWork, relWork')]_vars
    /\ []<>(pc \notin {"closure", "related"})

\* a closure was computed that holds a type whose references lead back to it
C9_Witness ==
    /\ pc = "closed"
    /\ \E name \in Range(collectedTypes) :
            name \in ReachableFrom(docInfo,
                        UNION {References(docInfo, map, name) :
                                map \in {m \in TypeMaps : Has(docInfo[m], name)}})

-----------------------------------------------------------------------------
(* Independence of the export keyword *)

\* C10: the export keywords of the source decide nothing: the tree without its
\* export keywords registers the same names in the same kind maps, has the same
\* closure and gets a module text that declares the same names.
C10_ExportKeywordDecidesNothing ==
    /\ \A map \in KindMaps : DOMAIN docInfo[map] = DOMAIN docInfoPlain[map]
    /\ pc = "closed" => collectedTypes = collectAllDependentTypes(docInfoPlain)
    /\ pc = "module" =>
            /\ Emitted(moduleCode) = Emitted(generateExportModule(docInfoPlain))
            /\ [i \in 1..Len(moduleCode) |-> moduleCode[i].name]
                = [i \in 1..Len(generateExportModule(docInfoPlain)) |->
                        generateExportModule(docInfoPlain)[i].name]

\* a module text with declarations was written for a tree that carries export keywords
C10_Witness ==
    /\ pc = "module"
    /\ moduleCode # <<>>
    /\ docInfo # docInfoPlain
    /\ \E i \in 1..Len(moduleCode) : ~hasExportAnnotation(moduleCode[i].comment)

-----------------------------------------------------------------------------
(* Properties of the public surface *)

\* the kind map the record of a page of the components, hooks or functions bucket is in
BucketMap(page) == page.bucket

\* C11: a component, hook or function whose comment carries no @export is
\* never declared as `export const` or `export function` in the module text
\* and gets no page in the components, hooks or functions bucket.
C11_UnflaggedStaysPrivate ==
    /\ pc = "module" =>
            \A i \in 1..Len(moduleCode) :
                \A map \in {"components", "functions", "hooks"} :
                    moduleCode[i].kind = SurfaceKind(map) =>
                        /\ Has(docInfo[map], moduleCode[i].name)
                        /\ hasExportAnnotation(docInfo[map][moduleCode[i].name].comment)
    /\ subject.bucket \in {"components", "functions", "hooks"} =>
            /\ Has(docInfo[BucketMap(subject)], subject.name)
            /\ hasExportAnnotation(docInfo[BucketMap(subject)][subject.name].comment)

\* a module text with declarations was written for a model that registers a
\* component, a hook or a function without the flag
C11_Witness ==
    /\ pc = "module"
    /\ Len(moduleCode) > 0
    /\ \E map \in {"components", "functions", "hooks"} :
            \E name \in DOMAIN docInfo[map] :
                /\ ~hasExportAnnotation(docInfo[map][name].comment)
                /\ name \notin Emitted(moduleCode)


\* C12: the comment interpreter never raises to its caller: whenever the parser
\* fails on the comment handed to parseTSDocComment, the result is an empty
\* summary, no examples and no flags.
C12_InterpreterFailsSilently ==
    doc.called /\ ParserFails(doc.comment) => doc.result = EmptyDocComment


\* C13: no renderer mutates the document model: every step of
\* collectAllDependentTypes, getRelatedTypes, generateExportModule and the page
\* renderers leaves every kind map and every record as the load left it.
C13_RenderersLeaveModelAlone == [][pc' # "load" => docInfo' = docInfo]_vars

\* a module text and a page with related types were written for a model that
\* holds declarations of several kinds
C13_Witness ==
    /\ \/ pc = "module" /\ Len(moduleCode) > 1
       \/ pc = "page" /\ relatedTypes # <<>>
    /\ Cardinality({map \in KindMaps : DOMAIN docInfo[map] # {}}) >= 2


-----------------------------------------------------------------------------
(* Properties of the Related Types section and of the classifier *)

\* the kind map that holds the record of a page
PageMap(page) ==
    CASE page.kind = "component" -> "components"
      [] page.kind = "hook" -> "hooks"
      [] page.kind = "function" -> "functions"
      [] page.kind = "interface" -> "interfaces"
      [] page.kind = "union" -> "unions"
      [] page.kind = "type" -> "typeAliases"
      [] OTHER -> "enums"

\* the names in the type-bearing fields of the record of a page itself
OwnReferences(d, page) ==
    IF page.kind = "component"
    THEN Range(ComponentTypeNames(d.components[page.name]))
    ELSE References(d, PageMap(page), page.name)

\* the members of a closure set found from a set of its members by following
\* the fields of the type records any number of times
RECURSIVE DiscoverableFrom(_, _, _)
DiscoverableFrom(d, dependentTypes, names) ==
    LET more == dependentTypes \cap
                    UNION {References(d, r[1], r[2]) :
                            r \in {q \in Records(d) : q[1] \in TypeMaps /\ q[2] \in names}}
    IN IF more \subseteq names THEN names
       ELSE DiscoverableFrom(d, dependentTypes, names \cup more)

\* C14: the Related Types section of a page lists every closure member that is
\* discoverable from the type-bearing fields of the documented record, whether
\* the field names it alone or inside a generic, array, union or object type
\* text, and every member reached from those transitively.
C14_RelatedTypesAreComplete ==
    pc = "page" =>
        LET dependentTypes == Range(collectedTypes)
            own == OwnReferences(docInfo, subject) \cap dependentTypes
        IN DiscoverableFrom(docInfo, dependentTypes, own) \ {subject.name}
                \subseteq Range(relatedTypes)


\* a variable declaration with a hook-prefixed name whose initializer is a function
IsHookVariable(node) ==
    /\ node.kind = "VariableDeclaration"
    /\ StartsWithUse(node.name)
    /\ node.initializer # <<>>
    /\ IsFunctionLike(node.initializer[1])

\* C15: the Hook registered for a hook-named variable bound to a function has
\* the function's explicit return-type annotation as its return type whenever
\* there is one; the declared type of the variable is used only without it, and
\* inference only without both; a function with no parameters gives an empty
\* parameter list.
C15_HookReturnTypePrecedence ==
    IsHookVariable(visiting) =>
        LET init == visiting.initializer[1]
            declaredType == visiting.type
            hook == docInfo.hooks[visiting.name]
        IN /\ Has(docInfo.hooks, visiting.name)
           /\ init.type # NoType => hook.type = init.type
           /\ init.type = NoType /\ declaredType # NoType =>
                    hook.type = IF CallSignatureReturn(declaredType, 1) # <<>>
                                THEN CallSignatureReturn(declaredType, 1)
                                ELSE declaredType
           /\ init.type = NoType /\ declaredType = NoType =>
                    hook.type = IF init.inferred # NoType THEN init.inferred ELSE <<"void">>
           /\ init.parameters = <<>> => hook.parameters = <<>>


\* a variable declaration initialised as wrapper calls, forwardRef among them,
\* nested around a function of a props and a ref parameter
IsWrappedForwardRef(node) ==
    /\ node.kind = "VariableDeclaration"
    /\ Len(node.initializer) >= 2
    /\ \A i \in 1..(Len(node.initializer) - 1) : node.initializer[i].kind = "CallExpression"
    /\ \E i \in 1..(Len(node.initializer) - 1) : IsForwardRefCallee(node.initializer[i].text)
    /\ IsFunctionLike(node.initializer[Len(node.initializer)])
    /\ Len(node.initializer[Len(node.initializer)].parameters) >= 2

\* the callee of every wrapper call of an initializer, outermost first
WrapperNames(initializer) ==
    [i \in 1..(Len(initializer) - 1) |-> initializer[i].text]

\* C16: a variable initialised as nested wrapper calls around a function, as in
\* memo(forwardRef((props: P, ref: R) => ...)), is registered as a Component of
\* kind forwardRef whose propType is the annotation of the first parameter,
\* whose refType is the annotation of the second and whose wrapper list holds
\* every wrapper name, outermost first.
C16_WrappedForwardRefComponent ==
    IsWrappedForwardRef(visiting) =>
        LET inner == visiting.initializer[Len(visiting.initializer)]
        IN /\ Has(docInfo.components, visiting.name)
           /\ docInfo.components[visiting.name].type = "forwardRef"
           /\ docInfo.components[visiting.name].propType = inner.parameters[1].type
           /\ docInfo.components[visiting.name].refType = inner.parameters[2].type
           /\ docInfo.components[visiting.name].wrappers = WrapperNames(visiting.initializer)


\* a class declaration whose first heritage clause names a component base
\* class with a props and a state type argument
IsComponentClass(node) ==
    /\ node.kind = "ClassDeclaration"
    /\ node.heritage # <<>>
    /\ IsReactComponentBase(node.heritage[1].expression)
    /\ Len(node.heritage[1].typeArguments) >= 2

\* C17: a class declaration whose first heritage clause names a component base
\* class with type arguments <P, S> is registered as a Component of kind class
\* with propType P and stateType S, and with an empty comment when the class
\* has no leading comment.
C17_ClassComponent ==
    IsComponentClass(visiting) =>
        /\ Has(docInfo.components, visiting.name)
        /\ docInfo.components[visiting.name].type = "class"
        /\ docInfo.components[visiting.name].propType = visiting.heritage[1].typeArguments[1]
        /\ docInfo.components[visiting.name].stateType = visiting.heritage[1].typeArguments[2]
        /\ visiting.comment = NoComment => docInfo.components[visiting.name].comment = <<>>

\* the class K extends React.Component<P, S> without a comment was classified
C17_Witness ==
    /\ IsComponentClass(visiting)
    /\ visiting.comment = NoComment
    /\ visiting.heritage[1].typeArguments = <<<<"P">>, <<"S">>>>
    /\ Has(docInfo.components, visiting.name)


-----------------------------------------------------------------------------
(* Properties of the closure *)

\* C18: once collectAllDependentTypes has returned, the closure holds every
\* name that is reachable from the type-bearing fields of a public declaration
\* and that has an entry in any kind map of the document model.
C18_ClosureResolvesInAnyKindMap ==
    pc \notin {"load", "closure"} =>
        {name \in Reachable(docInfo) : KindMapsOf(docInfo, name) # {}}
            \subseteq Range(collectedTypes)


\* C19: the closure is seeded from the export-flagged declarations of every
\* kind: the types an export-flagged interface, union, enum or type alias
\* references are in the closure, as those of the export-flagged components,
\* functions and hooks are.
C19_SeededFromEveryKind ==
    pc \notin {"load", "closure"} =>
        \A r \in Records(docInfo) :
            hasExportAnnotation(docInfo[r[1]][r[2]].comment) =>
                {name \in References(docInfo, r[1], r[2]) : IsDependentType(docInfo, name)}
                    \subseteq Range(collectedTypes)


\* C20: a candidate name that has no entry in any kind map is dropped without
\* an error: it is visited and never added, so every member of the closure is
\* a name the document model declares.
C20_UnresolvedCandidatesAreDropped ==
    /\ \A name \in visited :
            KindMapsOf(docInfo, name) = {} => name \notin Range(collectedTypes)
    /\ \A i \in 1..Len(collectedTypes) : KindMapsOf(docInfo, collectedTypes[i]) # {}

\* the walk returned after it met a candidate no kind map declares and one
\* that it added
C20_Witness ==
    /\ pc = "closed"
    /\ collectedTypes # <<>>
    /\ \E name \in visited : KindMapsOf(docInfo, name) = {}


-----------------------------------------------------------------------------
(* Properties of the order of the module text and of the registrations *)

\* the block of the module text a declaration entry belongs to
Block(entry) ==
    CASE entry.kind = "component" -> 2
      [] entry.kind = "function" -> 3
      [] entry.kind = "hook" -> 4
      [] OTHER -> 1

\* C21: in the text generateExportModule returns, the declarations of the
\* closure members come first, then the directly public components, then the
\* directly public function signatures, then the directly public hooks.
C21_ModuleBlocksInOrder ==
    pc = "module" =>
        /\ \A i, j \in 1..Len(moduleCode) :
                i < j => Block(moduleCode[i]) <= Block(moduleCode[j])
        /\ \A i \in 1..Len(moduleCode) :
                Block(moduleCode[i]) = 1 <=> moduleCode[i].name \in Range(collectedTypes)

\* a module text with entries of three of the four blocks
C21_Witness ==
    /\ pc = "module"
    /\ Cardinality({Block(moduleCode[i]) : i \in 1..Len(moduleCode)}) >= 3


\* the document model the running copy of the classifier builds from one
\* declaration alone
Alone(node) ==
    IF build = "core" THEN walkTree(node, NewDocInfo)
    ELSE parseFunctionDeclaration002(node, NewDocInfo)

\* C22: registration is last-write-wins: in each kind map the most recent
\* declaration is classified into, the record under its name is the record of
\* that declaration, whatever record the name had before.
C22_LastWriteWins ==
    visiting # NoNode =>
        \A map \in KindMaps :
            Has(Alone(visiting)[map], visiting.name) =>
                /\ Has(docInfo[map], visiting.name)
                /\ docInfo[map][visiting.name] = Alone(visiting)[map][visiting.name]

\* C23: every named function declaration is registered as a Function
\* Signature, and one whose name has the hook prefix is registered as a Hook
\* as well, so that it is in the hooks map and in the functions map.
C23_FunctionDeclarationInBothMaps ==
    visiting.kind = "FunctionDeclaration" /\ visiting.name # NoName =>
        /\ Has(docInfo.functions, visiting.name)
        /\ StartsWithUse(visiting.name) => Has(docInfo.hooks, visiting.name)


\* a variable declaration with an initializer whose declared type matches a
\* component-type pattern
IsAnnotatedComponent(node) ==
    /\ node.kind = "VariableDeclaration"
    /\ node.initializer # <<>>
    /\ node.type # NoType
    /\ parseTypeText(node.type).matched

\* C24: a variable declaration with an initializer whose declared type matches
\* a component-type pattern is registered as a Component built from the
\* generic arguments of the annotation; wrapper analysis, identifier alias,
\* class expression, hook-name prefix and plain function come after it.
C24_AnnotationTakesPrecedence ==
    IsAnnotatedComponent(visiting) =>
        LET parsed == parseTypeText(visiting.type)
        IN /\ Has(docInfo.components, visiting.name)
           /\ docInfo.components[visiting.name].type = parsed.type
           /\ docInfo.components[visiting.name].propType = parsed.propType
           /\ docInfo.components[visiting.name].stateType = parsed.stateType
           /\ docInfo.components[visiting.name].refType = parsed.refType
           /\ ~Has(docInfo.hooks, visiting.name)


\* the calls of an initializer whose first argument is a function, a class, an
\* identifier or a call, from the outermost on: the calls unwrapping descends through
RECURSIVE Descents(_, _)
Descents(expr, i) ==
    IF /\ i < Len(expr)
       /\ expr[i].kind = "CallExpression"
       /\ expr[i + 1].kind \in UnwrappableKinds
    THEN <<expr[i].text>> \o Descents(expr, i + 1)
    ELSE <<>>

\* C25: unwrapping records the callee of a call as a wrapper only when the
\* first argument of the call is a function, class, identifier or call
\* expression, into which it then descends; the call it stops at, whose first
\* argument is missing or of another shape, is the innermost expression and
\* its callee is not recorded.
C25_WrappersAreTheDescents ==
    visiting.kind = "VariableDeclaration" /\ visiting.initializer # <<>> =>
        LET unwrapped == unwrapCallWrappers(visiting.initializer)
            descents == Descents(visiting.initializer, 1)
        IN /\ unwrapped.wrappers = descents
           /\ unwrapped.inner = visiting.initializer[Len(descents) + 1]

\* the traversal is over: every source file was loaded and every walkTree returned
WalkIsOver == sources = <<>> /\ pending = <<>>

\* C26: an error thrown while classifying one declaration node prevents no
\* other node from being visited: when the traversal is over, the later
\* siblings of the failing node, the rest of its file and the later source
\* files have all been walked.
C26_ThrowNeverAbortsTraversal ==
    WalkIsOver => walked = DOMAIN Tree

C28_StateAndRefTypeFollowKind ==
    \A name \in DOMAIN docInfo.components :
        LET comp == docInfo.components[name]
        IN /\ comp.stateType # NoType => comp.type = "class"
           /\ comp.refType # NoType => comp.type = "forwardRef"

C28_Witness ==
    /\ \E name \in DOMAIN docInfo.components :
           docInfo.components[name].type = "class" /\ docInfo.components[name].stateType # NoType
    /\ \E name \in DOMAIN docInfo.components :
           docInfo.components[name].type = "forwardRef" /\ docInfo.components[name].refType # NoType

Reverse(seq) == [i \in 1..Len(seq) |-> seq[Len(seq) + 1 - i]]

Rotate(seq) == IF seq = <<>> THEN seq ELSE Tail(seq) \o <<Head(seq)>>

\* other orders in which a list of collectDependencies calls can be made
Orders == {"backward", "rotated"}

InOrder(order, seq) ==
    CASE order = "backward" -> Reverse(seq)
      [] order = "rotated" -> Rotate(seq)
      [] OTHER -> seq

\* the closure walk in which every forEach (over the records of the kind maps,
\* over the fields of a record and over the names of a type text) makes its
\* calls in the given order
RECURSIVE RunCollectInOrder(_, _, _)
RunCollectInOrder(order, d, st) ==
    IF st.work = <<>> THEN st
    ELSE LET next == collectDependencies(d, st)
             calls == Len(next.work) - Len(st.work) + 1
         IN RunCollectInOrder(order, d,
                IF calls > 0
                THEN [next EXCEPT !.work = InOrder(order, SubSeq(next.work, 1, calls))
                                            \o Tail(st.work)]
                ELSE next)

CollectedInOrder(order, d) ==
    RunCollectInOrder(order, d, [StartCollect(d) EXCEPT !.work = InOrder(order, @)]).collectedTypes

\* C29: for a fixed document model the dependency closure is the same set
\* whatever the order in which the kind maps, the public seed declarations and
\* the candidate names of a type text are processed.
C29_ClosureIsOrderIndependent ==
    pc = "closed" =>
        \A order \in Orders : Range(CollectedInOrder(order, docInfo)) = Range(collectedTypes)

C29_Witness ==
    /\ pc = "closed"
    /\ Len(collectedTypes) >= 2
    /\ \A order \in Orders : CollectedInOrder(order, docInfo) # collectedTypes

-----------------------------------------------------------------------------
(* generators/docs/component.ts: the tables and links of a component page *)

\* type.replace(/\[\]$/, ''): the type text without one trailing `[]`
CleanType(type) ==
    IF Len(type) > 0 /\ type[Len(type)] = "[]" THEN SubSeq(type, 1, Len(type) - 1) ELSE type

NoLink == [linked |-> FALSE, target |-> NoName]

\* the types page linkedType makes a type text point to, if it makes it a link
linkedType(type, d) ==
    LET cleanType == CleanType(type)
    IN IF /\ Len(cleanType) = 1
          /\ \/ Has(d.interfaces, cleanType[1]) \/ Has(d.unions, cleanType[1])
             \/ Has(d.enums, cleanType[1]) \/ Has(d.typeAliases, cleanType[1])
       THEN [linked |-> TRUE, target |-> cleanType[1]]
       ELSE NoLink

extractTypesFromComplex(comp, d) ==
    LET actualComp == IF comp.referencedComponent # NoName
                         /\ Has(d.components, comp.referencedComponent)
                      THEN d.components[comp.referencedComponent]
                      ELSE comp
    IN [propType |-> actualComp.propType, refType |-> actualComp.refType]

\* the members of docInfo.interfaces[type], none when the text names no interface
TableMembers(d, type) ==
    IF Len(type) = 1 /\ Has(d.interfaces, type[1]) THEN d.interfaces[type[1]].members ELSE <<>>

\* the targets of the links in the Type column of the Properties and the
\* Ref Handlers table
TableLinks(d, comp) ==
    LET types == extractTypesFromComplex(comp, d)
        rows == TableMembers(d, types.propType)
                \o (IF types.refType # NoType THEN TableMembers(d, types.refType) ELSE <<>>)
    IN {linkedType(rows[i].type, d).target :
            i \in {j \in 1..Len(rows) : linkedType(rows[j].type, d).linked}}

\* the targets of all links of the page of a component
PageLinks(d, dependentTypes, name) ==
    TableLinks(d, d.components[name])
    \cup Range(RelatedTypesOf(d, dependentTypes, Page("components", "component", name)))

ArrayOf(name) == <<name, "[]">>

\* `interface A { m: size; n: B[] }`, `interface A { m: B }`,
\* `interface T { focus: size[] }`, `type size = string | number`, `enum B`,
\* and the components `C: React.FC<A>`, `D = forwardRef((p: A, r: T) => ...)`, `D = C`
PageSources ==
    {InterfaceNode("A", <<>>, NoComment, <<>>,
                   <<Param("m", <<"size">>), Param("n", ArrayOf("B"))>>),
     InterfaceNode("A", <<>>, NoComment, <<>>, <<Param("m", <<"B">>)>>),
     InterfaceNode("T", <<>>, NoComment, <<>>, <<Param("focus", ArrayOf("size"))>>),
     TypeAliasNode("size", <<>>, NoComment, UnionType(<<<<"string">>, <<"number">>>>)),
     EnumNode("B", <<>>, NoComment),
     VariableNode("C", <<>>, ExportComment, FunctionalA,
                  <<ArrowExpr(<<Param("props", NoType)>>, NoType, NoType)>>),
     VariableNode("D", <<>>, ExportComment, NoType,
                  <<CallExpr("forwardRef"),
                    ArrowExpr(<<Param("p", <<"A">>), Param("r", <<"T">>)>>, NoType, NoType)>>),
     VariableNode("D", <<>>, ExportComment, NoType, <<IdentExpr("C", NoType)>>)}

\* load: walkTree reaches one declaration node of the sources and classifies it
LoadDeclaration ==
    /\ pc = "load"
    /\ \E node \in PageSources :
        /\ Size(walkTree(node, docInfo)) <= MaxDecls
        /\ docInfo' = walkTree(node, docInfo)
        /\ docInfoPlain' = walkTree(PlainNode(node), docInfoPlain)
    /\ UNCHANGED <<pc, visited, collectedTypes, work, expanded, moduleCode, subject,
                   relVisited, relatedTypes, relWork>>
    /\ UNCHANGED classifierVars

\* generateDocs: `const dependentTypes = collectAllDependentTypes(docInfo)`
GenerateDocs ==
    /\ pc = "load"
    /\ collectedTypes' = collectAllDependentTypes(docInfo)
    /\ pc' = "closed"
    /\ UNCHANGED <<docInfo, docInfoPlain, visited, work, expanded, moduleCode, subject,
                   relVisited, relatedTypes, relWork>>
    /\ UNCHANGED classifierVars

\* generateDocs writes the page of the next component that carries the flag
GenerateComponentDoc ==
    /\ pc \in {"closed", "page"}
    /\ \E name \in DOMAIN docInfo.components :
        /\ hasExportAnnotation(docInfo.components[name].comment)
        /\ subject' = Page("components", "component", name)
        /\ links' = PageLinks(docInfo, Range(collectedTypes), name)
    /\ pc' = "page"
    /\ UNCHANGED <<docInfo, docInfoPlain, visited, collectedTypes, work, expanded, moduleCode,
                   relVisited, relatedTypes, relWork>>
    /\ UNCHANGED <<visiting, doc, build, walkVars>>

PageNext ==
    \/ LoadDeclaration
    \/ GenerateDocs
    \/ GenerateComponentDoc

PageSpec == Init /\ [][PageNext]_vars

\* the names of the types pages generateDocs writes
TypesPages == {page.name : page \in {q \in Pages(docInfo, Range(collectedTypes)) : q.bucket = "types"}}

\* C30: every link written into a component page, a type link of the
\* Properties or Ref Handlers table or a Related Types link, targets a types
\* page the same run writes, that is, a member of the dependency closure.
C30_LinksTargetWrittenPages ==
    pc = "page" => links \subseteq TypesPages /\ links \subseteq Range(collectedTypes)

=============================================================================
